---- MODULE Spec2Model ----
(***************************************************************************)
(* Quartermaster: a self-hosted package registry.                          *)
(*                                                                         *)
(* The model follows src/src/main.rs (the request handlers and the         *)
(* registry lock), src/src/storage/local.rs and src/src/storage/s3.rs (the *)
(* two storage variants), src/src/index.rs (the index file) and            *)
(* src/src/crate_name.rs (the path mapping).                               *)
(*                                                                         *)
(* A request is a task; one step of the model is what a handler does       *)
(* between two suspension points.  A local file write is                   *)
(* std::fs::write: create-or-truncate, then write_all; an object-store     *)
(* put is one step.  A handler that is dropped (client gone) stops at a    *)
(* suspension point and its guard is dropped with it; a local write it     *)
(* was awaiting is not stopped with it.                                    *)
(***************************************************************************)
EXTENDS Integers, Sequences, FiniteSets, TLC

\* ------------------------------------------------------------------ bounds
MaxActive == 2      \* request slots that can be in flight together
MaxStarts == 3      \* requests started in one behaviour
MaxFaults == 1      \* storage operations that fail in one behaviour
MaxCancels == 1     \* requests dropped before they finish in one behaviour

Reqs == 1..MaxActive

\* ------------------------------------------------------- names and versions
\* A string is a sequence of one-character strings, so that it can be
\* sliced the way the path mapping slices it.
StrCrates == <<"c", "r", "a", "t", "e", "s">>
StrDotCrate == <<".", "c", "r", "a", "t", "e">>
Digits == <<"0", "1", "2", "3", "4", "5", "6", "7", "8", "9">>

NameFoo == <<"f", "o", "o">>
Names == {NameFoo}

Version(ma, mi, pa, pre, build) ==
    [major |-> ma, minor |-> mi, patch |-> pa, pre |-> pre, build |-> build]

V100 == Version(1, 0, 0, <<>>, <<>>)
V200 == Version(2, 0, 0, <<>>, <<>>)
Versions == {V100, V200}

\* Archive payloads, each a sequence of chunks as a reader streams them.
BytesA == <<1, 2>>
BytesB == <<3, 4>>
Payloads == {BytesA, BytesB}
\* An archive one byte longer than the others.
BytesOver == <<5, 6, 7>>
\* An archive whose upload is oversize even with its last byte missing.
BytesLong == <<5, 6, 7, 8>>
Uploads == Payloads \cup {BytesOver}

RECURSIVE NumToStr(_)
NumToStr(n) ==
    IF n < 10 THEN <<Digits[n + 1]>>
    ELSE NumToStr(n \div 10) \o <<Digits[(n % 10) + 1]>>

\* semver::Version as Display prints it.
VersionToString(v) ==
    NumToStr(v.major) \o <<".">> \o NumToStr(v.minor) \o <<".">> \o NumToStr(v.patch)
    \o (IF v.pre = <<>> THEN <<>> ELSE <<"-">> \o v.pre)
    \o (IF v.build = <<>> THEN <<>> ELSE <<"+">> \o v.build)

\* The version stored as it was uploaded.
CrateVersionAsSent(v) == v

\* The version a publish stores: build metadata dropped.
crate_version(v) == [v EXCEPT !.build = <<>>]

\* Sha256::digest + hex::encode: a collision-free digest of the bytes.
cksum(bytes) == <<"sha256">> \o bytes

\* --------------------------------------------------------------- path mapping
\* An index path that puts a name of three characters beside "3".
IndexPathFlat(name) ==
    IF Len(name) <= 3 THEN <<NumToStr(Len(name)), name>>
    ELSE <<SubSeq(name, 1, 2), SubSeq(name, 3, 4), name>>

index_path(name) ==
    CASE Len(name) = 1 -> <<<<"1">>, name>>
      [] Len(name) = 2 -> <<<<"2">>, name>>
      [] Len(name) = 3 -> <<<<"3">>, SubSeq(name, 1, 1), name>>
      [] OTHER -> <<SubSeq(name, 1, 2), SubSeq(name, 3, 4), name>>

\* An archive path without the version directory.
CratePathNoVersion(name, version) == <<name, name \o StrDotCrate>>

crate_path(name, version) ==
    <<name, VersionToString(version), name \o StrDotCrate>>

\* ----------------------------------------------------------------- characters
\* A character is a one-element string; a character outside ASCII is written
\* by its code point.
LowerLetters ==
    <<"a", "b", "c", "d", "e", "f", "g", "h", "i", "j", "k", "l", "m",
      "n", "o", "p", "q", "r", "s", "t", "u", "v", "w", "x", "y", "z">>
UpperLetters ==
    <<"A", "B", "C", "D", "E", "F", "G", "H", "I", "J", "K", "L", "M",
      "N", "O", "P", "Q", "R", "S", "T", "U", "V", "W", "X", "Y", "Z">>
Range(seq) == {seq[i] : i \in 1..Len(seq)}
AsciiOther == {"_", "-", ".", "/", "+", " ", "~"}
KelvinSign == "U+212A"       \* lowercases to the ASCII letter k
CapitalEAcute == "U+00C9"    \* lowercases to U+00E9
SmallEAcute == "U+00E9"
CapitalDottedI == "U+0130"   \* lowercases to i followed by U+0307
CombiningDot == "U+0307"

\* char::is_ascii, char::is_ascii_alphanumeric, char::is_alphabetic.
char_is_ascii(c) ==
    c \in Range(LowerLetters) \cup Range(UpperLetters) \cup Range(Digits)
          \cup AsciiOther
is_ascii_alphanumeric(c) ==
    c \in Range(LowerLetters) \cup Range(UpperLetters) \cup Range(Digits)
is_alphabetic(c) ==
    c \in Range(LowerLetters) \cup Range(UpperLetters)
          \cup {KelvinSign, CapitalEAcute, SmallEAcute, CapitalDottedI}

\* str::is_ascii.
is_ascii(s) == \A i \in 1..Len(s) : char_is_ascii(s[i])

\* char::to_lowercase: the lowercase mapping of Unicode, which can yield
\* more than one character.
char_to_lowercase(c) ==
    IF c \in Range(UpperLetters)
    THEN <<LowerLetters[CHOOSE i \in 1..26 : UpperLetters[i] = c]>>
    ELSE IF c = KelvinSign THEN <<"k">>
    ELSE IF c = CapitalEAcute THEN <<SmallEAcute>>
    ELSE IF c = CapitalDottedI THEN <<"i", CombiningDot>>
    ELSE <<c>>

\* str::to_lowercase.
RECURSIVE to_lowercase(_)
to_lowercase(s) ==
    IF s = <<>> THEN <<>> ELSE char_to_lowercase(Head(s)) \o to_lowercase(Tail(s))

\* ---------------------------------------------------------------- crate names
MAX_CRATE_NAME_LENGTH == 64

\* FORBIDDEN_CRATE_NAMES (mod forbidden): reserved file names and reserved
\* identifiers; two of each stand for the list.
FORBIDDEN_CRATE_NAMES ==
    {<<"n", "u", "l">>, <<"c", "o", "n">>, <<"a", "s">>, <<"s", "e", "l", "f">>}

NameOk(name) == [ok |-> TRUE, name |-> name, err |-> "none"]
NameErr(err) == [ok |-> FALSE, name |-> <<>>, err |-> err]

\* A name taken as the client spells it.
CrateNameAsSent(crate_name) == NameOk(crate_name)

\* CrateName::new.
CrateName_new(crate_name) ==
    LET crate_name_lower == to_lowercase(crate_name)
    IN  IF ~is_ascii(crate_name_lower) THEN NameErr("NotASCII")
        ELSE IF crate_name_lower = <<>> THEN NameErr("Empty")
        ELSE IF ~is_alphabetic(crate_name_lower[1])
        THEN NameErr("NotAlphabeticFirstChar")
        ELSE IF Len(crate_name_lower) > MAX_CRATE_NAME_LENGTH
        THEN NameErr("TooLong")
        ELSE IF ~ \A i \in 1..Len(crate_name_lower) :
                    \/ is_ascii_alphanumeric(crate_name_lower[i])
                    \/ crate_name_lower[i] \in {"_", "-"}
        THEN NameErr("ForbiddenChar")
        ELSE IF crate_name_lower \in FORBIDDEN_CRATE_NAMES
        THEN NameErr("Forbidden")
        ELSE NameOk(crate_name_lower)

\* ---------------------------------------------------------------- index paths
\* A path as the client writes it: a string with "/" between its parts.
RECURSIVE SplitOn(_, _)
SplitOn(s, sep) ==
    IF \A i \in 1..Len(s) : s[i] # sep THEN <<s>>
    ELSE LET i == CHOOSE k \in 1..Len(s) :
                    s[k] = sep /\ \A j \in 1..(k - 1) : s[j] # sep
         IN  <<SubSeq(s, 1, i - 1)>> \o SplitOn(SubSeq(s, i + 1, Len(s)), sep)

Component(kind, str) == [kind |-> kind, str |-> str]
Normal(str) == Component("Normal", str)

\* Path::components on a Unix path: repeated separators and "." parts are
\* normalized away, but for a "." that begins a relative path; a leading
\* separator is the root.
RECURSIVE ComponentsOf(_, _)
ComponentsOf(segs, atStart) ==
    IF segs = <<>> THEN <<>>
    ELSE LET seg == Head(segs)
             rest == Tail(segs)
         IN  IF seg = <<>> THEN ComponentsOf(rest, atStart)
             ELSE IF seg = <<".">>
             THEN IF atStart
                  THEN <<Component("CurDir", seg)>> \o ComponentsOf(rest, FALSE)
                  ELSE ComponentsOf(rest, FALSE)
             ELSE IF seg = <<".", ".">>
             THEN <<Component("ParentDir", seg)>> \o ComponentsOf(rest, FALSE)
             ELSE <<Normal(seg)>> \o ComponentsOf(rest, FALSE)

components(path) ==
    IF path # <<>> /\ path[1] = "/"
    THEN <<Component("RootDir", <<"/">>)>> \o ComponentsOf(SplitOn(path, "/"), FALSE)
    ELSE ComponentsOf(SplitOn(path, "/"), TRUE)

\* PathBuf::from(a).join(b).join(c) of plain parts, as a string and as
\* components.
RECURSIVE PathString(_)
PathString(parts) ==
    IF Len(parts) = 0 THEN <<>>
    ELSE IF Len(parts) = 1 THEN parts[1]
    ELSE parts[1] \o <<"/">> \o PathString(Tail(parts))
PathComponents(parts) == [i \in 1..Len(parts) |-> Normal(parts[i])]

\* The components from_index_path looks at: those after the leading root.
Looked(path) ==
    LET all == components(path)
    IN  IF all # <<>> /\ all[1].kind = "RootDir" THEN Tail(all) ELSE all

\* A from_index_path that takes the last part of the path for the name.
FromIndexPathLast(path) ==
    LET c == Looked(path)
    IN  IF c = <<>> THEN NameErr("TooFewComponents")
        ELSE CrateName_new(c[Len(c)].str)

\* CrateName::from_index_path.
from_index_path(path) ==
    LET all == components(path)
        \* skip_while(RootDir)
        rest == IF all # <<>> /\ all[1].kind = "RootDir" THEN Tail(all) ELSE all
        \* take(3)
        taken == SubSeq(rest, 1, IF Len(rest) < 3 THEN Len(rest) ELSE 3)
        c == [i \in 1..Len(taken) |-> taken[i].str]
    IN  IF \E i \in 1..Len(taken) :
               taken[i].kind # "Normal" \/ ~is_ascii(taken[i].str)
        THEN NameErr("ForbiddenComponent")
        ELSE IF Len(rest) > 3 THEN NameErr("TooManyComponents")
        ELSE IF Len(c) < 2 THEN NameErr("TooFewComponents")
        ELSE IF Len(c) = 2
        THEN IF c[1] = <<"1">>
             THEN IF Len(c[2]) # 1 THEN NameErr("Inconsistent")
                  ELSE CrateName_new(c[2])
             ELSE IF c[1] = <<"2">>
             THEN IF Len(c[2]) # 2 THEN NameErr("Inconsistent")
                  ELSE CrateName_new(c[2])
             ELSE NameErr("Inconsistent")
        ELSE IF c[1] = <<"3">>
             THEN IF Len(c[3]) # 3 \/ c[2] # SubSeq(c[3], 1, 1)
                  THEN NameErr("Inconsistent")
                  ELSE CrateName_new(c[3])
             ELSE IF \/ Len(c[3]) < 4
                     \/ c[1] # SubSeq(c[3], 1, 2)
                     \/ c[2] # SubSeq(c[3], 3, 4)
                  THEN NameErr("Inconsistent")
                  ELSE CrateName_new(c[3])

\* ------------------------------------------------------------------ index file
IndexEntry(name, vers, ck, yanked) ==
    [name |-> name, vers |-> vers, cksum |-> ck, yanked |-> yanked]

NoEntry == IndexEntry(<<>>, V100, <<>>, FALSE)

\* One line of a stored index file: the compact JSON of an entry, or the
\* cut-off beginning of one.
JsonLine(e) == [kind |-> "json", entry |-> e]
PartialLine == [kind |-> "partial", entry |-> NoEntry]

\* IndexFile::to_bytes: one JSON object per entry, "\n" between them.
to_bytes(entries) == [i \in 1..Len(entries) |-> JsonLine(entries[i])]

\* IndexFile::from_bytes: every line must parse.
from_bytes(lines) ==
    IF \E i \in 1..Len(lines) : lines[i].kind # "json"
    THEN [ok |-> FALSE, entries |-> <<>>]
    ELSE [ok |-> TRUE, entries |-> [i \in 1..Len(lines) |-> lines[i].entry]]

\* --------------------------------------------------- index file, as bytes
\* semver::Version::parse, for the strings Display prints and their like:
\* MAJOR.MINOR.PATCH, then "-" and a pre-release, then "+" and build metadata.
FirstIndex(s, c) ==
    IF \E i \in 1..Len(s) : s[i] = c
    THEN CHOOSE i \in 1..Len(s) : s[i] = c /\ \A j \in 1..(i - 1) : s[j] # c
    ELSE 0

IsNumber(s) ==
    /\ s # <<>>
    /\ \A i \in 1..Len(s) : s[i] \in Range(Digits)
    /\ Len(s) > 1 => s[1] # "0"

RECURSIVE StrToNum(_)
StrToNum(s) ==
    IF s = <<>> THEN 0
    ELSE 10 * StrToNum(SubSeq(s, 1, Len(s) - 1))
         + (CHOOSE d \in 0..9 : Digits[d + 1] = s[Len(s)])

Version_parse(text) ==
    LET plus == FirstIndex(text, "+")
        noBuild == IF plus = 0 THEN text ELSE SubSeq(text, 1, plus - 1)
        build == IF plus = 0 THEN <<>> ELSE SubSeq(text, plus + 1, Len(text))
        dash == FirstIndex(noBuild, "-")
        core == IF dash = 0 THEN noBuild ELSE SubSeq(noBuild, 1, dash - 1)
        pre == IF dash = 0 THEN <<>> ELSE SubSeq(noBuild, dash + 1, Len(noBuild))
        nums == SplitOn(core, ".")
    IN  IF \/ Len(nums) # 3
           \/ \E i \in 1..Len(nums) : ~IsNumber(nums[i])
           \/ (plus # 0 /\ build = <<>>)
           \/ (dash # 0 /\ pre = <<>>)
        THEN [ok |-> FALSE, vers |-> V100]
        ELSE [ok |-> TRUE,
              vers |-> Version(StrToNum(nums[1]), StrToNum(nums[2]),
                               StrToNum(nums[3]), pre, build)]

\* A byte of an index file is a newline, a carriage return, a space, or
\* stands for a whole JSON object (its text holds none of the former raw)
\* or for bytes that are no JSON at all.
Byte(kind) ==
    [kind |-> kind, name |-> <<>>, vers |-> <<>>, cksum |-> <<>>, yanked |-> FALSE]
NL == Byte("\n")
CR == Byte("\r")
SP == Byte(" ")
Garbage == Byte("garbage")
Whitespace == {NL, CR, SP}

\* serde_json::to_writer(entry): name as a string, vers as Display prints it.
to_writer(entry) ==
    <<[kind |-> "object", name |-> entry.name,
       vers |-> VersionToString(entry.vers),
       cksum |-> entry.cksum, yanked |-> entry.yanked]>>

\* IndexFile::to_bytes with a newline after every entry.
RECURSIVE ToBytesNewlineEach(_)
ToBytesNewlineEach(entries) ==
    IF entries = <<>> THEN <<>>
    ELSE to_writer(Head(entries)) \o <<NL>> \o ToBytesNewlineEach(Tail(entries))

\* IndexFile::to_bytes.
RECURSIVE IndexFile_to_bytes(_)
IndexFile_to_bytes(entries) ==
    IF entries = <<>> THEN <<>>
    ELSE IF Len(entries) = 1 THEN to_writer(entries[1])
    ELSE IndexFile_to_bytes(SubSeq(entries, 1, Len(entries) - 1))
         \o <<NL>> \o to_writer(entries[Len(entries)])

\* str::lines: the text is cut after every "\n"; a line loses its "\n" and,
\* only then, a "\r" before it.
str_lines(text) ==
    IF text = <<>> THEN <<>>
    ELSE LET cut == SplitOn(text, NL)
             \* nothing follows a final "\n"
             segs == IF text[Len(text)] = NL
                     THEN SubSeq(cut, 1, Len(cut) - 1) ELSE cut
             ended(i) == i < Len(cut)
         IN  [i \in 1..Len(segs) |->
                IF ended(i) /\ segs[i] # <<>> /\ segs[i][Len(segs[i])] = CR
                THEN SubSeq(segs[i], 1, Len(segs[i]) - 1)
                ELSE segs[i]]

\* str::trim_end and the whitespace serde_json skips before a value.
RECURSIVE trim_end(_)
trim_end(l) ==
    IF l # <<>> /\ l[Len(l)] \in Whitespace
    THEN trim_end(SubSeq(l, 1, Len(l) - 1)) ELSE l
RECURSIVE trim_start(_)
trim_start(l) ==
    IF l # <<>> /\ l[1] \in Whitespace THEN trim_start(Tail(l)) ELSE l

\* serde_json::from_str::<IndexEntry>: one object and nothing but
\* whitespace around it; name through CrateName::new, vers through
\* Version::parse.
from_str(l) ==
    LET t == trim_start(trim_end(l))
    IN  IF Len(t) # 1 \/ t[1].kind # "object"
        THEN [ok |-> FALSE, entry |-> NoEntry]
        ELSE LET name == CrateName_new(t[1].name)
                 vers == Version_parse(t[1].vers)
             IN  IF ~name.ok \/ ~vers.ok
                 THEN [ok |-> FALSE, entry |-> NoEntry]
                 ELSE [ok |-> TRUE,
                       entry |-> IndexEntry(name.name, vers.vers,
                                            t[1].cksum, t[1].yanked)]

\* IndexFile::from_bytes: every line of the text is trimmed at its end and
\* parsed; one line that does not parse fails the file.
IndexFile_from_bytes(bytes) ==
    LET parsed == [i \in 1..Len(str_lines(bytes)) |->
                      from_str(trim_end(str_lines(bytes)[i]))]
    IN  IF \E i \in 1..Len(parsed) : ~parsed[i].ok
        THEN [ok |-> FALSE, entries |-> <<>>]
        ELSE [ok |-> TRUE, entries |-> [i \in 1..Len(parsed) |-> parsed[i].entry]]

\* -------------------------------------------------------------------- state
VARIABLE variant  \* "local" or "s3": the storage variant the server runs with
VARIABLE dirs     \* local variant: directories that exist under the storage root
VARIABLE files    \* stored objects: key -> content; the domain is what exists
VARIABLE lock     \* the registry lock: [writer, readers]
VARIABLE req      \* the request in each slot
VARIABLE started  \* requests started so far
VARIABLE faults   \* storage faults so far
VARIABLE cancels  \* requests dropped so far
VARIABLE detached \* storage writes whose handler was dropped while awaiting them
VARIABLE stable   \* files as of the last moment no write to storage was under way
VARIABLE call     \* the last application of a codec function: [fn, arg, out]
VARIABLE inputs   \* what clients send and how often the environment fails

vars == <<variant, dirs, files, lock, req, started, faults, cancels, detached, stable,
          call, inputs>>

NoCall == [fn |-> "none", arg |-> <<>>, out |-> <<>>]

\* ------------------------------------------------------------ storage keys
Parent(key) == SubSeq(key, 1, Len(key) - 1)

RECURSIVE Ancestors(_)
Ancestors(key) ==
    IF Len(key) <= 1 THEN {} ELSE {Parent(key)} \cup Ancestors(Parent(key))

\* LocalStorage: index files directly under the root, archives under crates/.
LocalIndexKey(name) == index_path(name)
LocalCrateKey(name, version) == <<StrCrates>> \o crate_path(name, version)

\* S3Storage: the object keys each method hands to the bucket.
S3IndexKey(name) == index_path(name)
S3ReadCrateKey(name, version) == <<StrCrates>> \o crate_path(name, version)
S3WriteCrateKey(name, version) == crate_path(name, version)

\* One index file for every package.
IndexKeyShared(name) == <<<<"i", "n", "d", "e", "x">>>>

IndexKey(name) ==
    IF variant = "local" THEN LocalIndexKey(name) ELSE S3IndexKey(name)
ReadCrateKey(name, version) ==
    IF variant = "local" THEN LocalCrateKey(name, version)
    ELSE S3ReadCrateKey(name, version)
WriteCrateKey(name, version) ==
    IF variant = "local" THEN LocalCrateKey(name, version)
    ELSE S3WriteCrateKey(name, version)

\* Every directory a local write of the bounded names and versions needs.
AllDirsOf(in) ==
    LET names == {n.crate_name.name : n \in {m \in in.names : m.crate_name.ok}}
        versions == {crate_version(v) : v \in in.versions}
    IN  UNION ({Ancestors(LocalIndexKey(n)) : n \in names}
               \cup {Ancestors(LocalCrateKey(n, v)) : n \in names, v \in versions})

\* ------------------------------------------------------- storage operations
Exists(key) == key \in DOMAIN files

\* tokio::fs::write, first half: File::create.  It needs the parent
\* directory; nothing in the server creates one.
CanCreate(key) == Parent(key) = <<>> \/ Parent(key) \in dirs
Created(key) == (key :> <<>>) @@ files
\* second half (write_all), or a whole put_object.
Written(key, data) == (key :> data) @@ files

\* What a write_all that fails can leave behind.
Prefixes(data) == {SubSeq(data, 1, k) : k \in 0..(Len(data) - 1)}
TornCrate(data) == Prefixes(data)
TornIndex(lines) ==
    Prefixes(lines) \cup {Append(p, PartialLine) : p \in Prefixes(lines)}

FaultChoices == IF faults < inputs.faults THEN {FALSE, TRUE} ELSE {FALSE}

\* Storage::read_index_file: the result with its error variant.
read_index_file(name, fault) ==
    IF fault THEN [tag |-> "Io", entries |-> <<>>]
    ELSE IF ~Exists(IndexKey(name)) THEN [tag |-> "NotFound", entries |-> <<>>]
    ELSE LET parsed == from_bytes(files[IndexKey(name)])
         IN  IF parsed.ok THEN [tag |-> "Ok", entries |-> parsed.entries]
             ELSE [tag |-> "IndexFile", entries |-> <<>>]

\* impl From<storage::Error> for ErrorResponse
StorageErrorStatus(tag) == IF tag = "NotFound" THEN 404 ELSE 500
StorageErrorDetail(tag) ==
    IF tag = "NotFound" THEN <<"Crate not found">> ELSE <<"Error fetching file">>

\* ------------------------------------------------------------ registry lock
Unlocked == [writer |-> 0, readers |-> {}]
CanRead == lock.writer = 0
CanWrite == lock.writer = 0 /\ lock.readers = {}
\* A guard that is never dropped.
KeepLock(r) == lock

Release(r) ==
    [writer |-> IF lock.writer = r THEN 0 ELSE lock.writer,
     readers |-> lock.readers \ {r}]

\* -------------------------------------------------------------- authorization
\* An Option is a record: Absent, or Present(value).
Absent == [some |-> FALSE, val |-> ""]
Present(val) == [some |-> TRUE, val |-> val]

\* The Authorization header of a request: absent, a value that is text, or
\* a value with bytes HeaderValue::to_str refuses.
NoAuthorization == [present |-> FALSE, visible |-> FALSE, value |-> ""]
Header(value) == [present |-> TRUE, visible |-> TRUE, value |-> value]
OpaqueHeader(value) == [present |-> TRUE, visible |-> FALSE, value |-> value]

\* impl FromRequestParts for Authorization; both rejections are FORBIDDEN.
Authorization_from_request_parts(h) ==
    IF h.present /\ h.visible THEN [ok |-> TRUE, token |-> h.value]
    ELSE [ok |-> FALSE, token |-> ""]

\* The handler argument `authorization: Option<Authorization>`, mapped to
\* its token: a rejection of the extractor is taken for no header.
OptionAuthorization(h) ==
    LET authorization == Authorization_from_request_parts(h)
    IN  IF authorization.ok THEN Present(authorization.token) ELSE Absent

\* Sha512::digest, collision-free; the configured auth.token_hash.
Sha512(token) == <<"sha512", token>>
StrSecret == "secret"
token_hash == Sha512(StrSecret)

\* Token::authorize
Token_authorize(token) ==
    IF ~token.some THEN "Unauthorized"
    ELSE IF Sha512(token.val) = token_hash THEN "Ok"
    ELSE "Forbidden"

\* Auth::authorize, for Auth::None and Auth::Token.
Auth_authorize(auth, token) ==
    IF auth = "None" THEN "Ok" ELSE Token_authorize(token)

\* impl From<auth::Error> for ErrorResponse; 0 when authorized.
AuthErrorStatus(e) ==
    CASE e = "Ok" -> 0
      [] e = "Unauthorized" -> 401
      [] e = "Forbidden" -> 403

\* state.auth.authorize(authorization.as_ref().map(|a| a.token()))?
Authorize(auth, h) ==
    AuthErrorStatus(Auth_authorize(auth, OptionAuthorization(h)))

\* ----------------------------------------------------------------- requests
IdleReq ==
    [op |-> "none", pc |-> "idle", name |-> <<>>, vers |-> V100,
     bytes |-> <<>>, index_file |-> <<>>, status |-> 0, detail |-> <<>>,
     body |-> <<>>, body_size |-> 0, raw |-> <<>>,
     header |-> NoAuthorization, body_data |-> <<>>]

NewReq(op, pc, name, vers, bytes) ==
    [IdleReq EXCEPT !.op = op, !.pc = pc, !.name = name, !.vers = vers,
                    !.bytes = bytes]

Free(r) == req[r].pc \in {"idle", "done"}
\* A new request takes the lowest free slot.
NextSlot(r) == Free(r) /\ \A q \in Reqs : q < r => ~Free(q)

Responded(r, status, detail, body) ==
    [req[r] EXCEPT !.pc = "done", !.status = status, !.detail = detail,
                   !.body = body, !.index_file = <<>>]

\* No handler holds the lock exclusively and no abandoned write has
\* truncated its file without filling it yet.
Quiet(l, d) == l.writer = 0 /\ \A w \in d : ~w.mid
NextStable(l, f) == IF Quiet(l, detached) THEN f ELSE stable

\* The handler of slot r returns: its guard is dropped, the response is sent.
Return(r, status, detail, body, newfiles, fault) ==
    /\ req' = [req EXCEPT ![r] = Responded(r, status, detail, body)]
    /\ lock' = Release(r)
    /\ files' = newfiles
    /\ faults' = IF fault THEN faults + 1 ELSE faults
    /\ stable' = NextStable(lock', files')
    /\ UNCHANGED <<call, inputs, variant, dirs, detached, started, cancels>>

\* The handler of slot r moves on to its next suspension point.
Goto(r, pc, index_file, newfiles) ==
    /\ req' = [req EXCEPT ![r] = [@ EXCEPT !.pc = pc, !.index_file = index_file]]
    /\ files' = newfiles
    /\ stable' = NextStable(lock, files')
    /\ UNCHANGED <<call, inputs, variant, dirs, detached, lock, started, faults, cancels>>

Start(r, newreq) ==
    /\ NextSlot(r)
    /\ started < inputs.starts
    /\ started' = started + 1
    /\ req' = [req EXCEPT ![r] = newreq]
    /\ UNCHANGED <<call, inputs, variant, dirs, detached, files, lock, faults, cancels, stable>>

Acquire(r, newlock, pc) ==
    /\ lock' = newlock
    /\ req' = [req EXCEPT ![r] = [@ EXCEPT !.pc = pc]]
    /\ stable' = NextStable(lock', files)
    /\ UNCHANGED <<call, inputs, variant, dirs, detached, files, started, faults, cancels>>

\* A request answered before its handler reaches the lock.
Rejected(op, h, status) ==
    [IdleReq EXCEPT !.op = op, !.pc = "done", !.status = status,
                    !.header = h.header]

\* A request that names a package: the handler authorizes the request, then
\* turns the text `raw` into a CrateName, `crate_name`, and answers `reject`
\* when that fails.
StartNamed(r, op, pc, h, raw, crate_name, vers, reject) ==
    IF h.status # 0 THEN Start(r, Rejected(op, h, h.status))
    ELSE IF ~crate_name.ok
    THEN Start(r, [Rejected(op, h, reject) EXCEPT !.raw = raw])
    ELSE Start(r, [NewReq(op, pc, crate_name.name, vers, <<>>)
                     EXCEPT !.raw = raw, !.header = h.header])

OkBody == <<"ok">>

\* ----------------------------------------------------------------- publish
\* put_publish_crate; `vers` is the uploaded version.
\*
\* The upload is a 4-byte length, the metadata, a 4-byte length, the archive.
MetadataLength == 2
BodySize(json_length, crate_length) == 4 + json_length + 4 + crate_length
\* crates.max_publish_size, configured to the size of an upload of Payloads.
max_publish_size == BodySize(MetadataLength, Len(BytesA))

\* body.size_hint().exact(): the declared length, or none (chunked transfer).
NoSize == -1
size_hint(body_data, exact) == IF exact THEN Len(body_data) ELSE NoSize

\* Limited::new(body, max_publish_size).collect(): 0 when the body fits.
Collected(length) == IF length > max_publish_size THEN 413 ELSE 0

\* The limit taken as exclusive.
SizeGateStrict(body_size) ==
    IF body_size = NoSize THEN 411
    ELSE IF body_size >= max_publish_size THEN 413
    ELSE Collected(body_size)

\* The status the size checks answer with, 0 when the upload passes them.
SizeGate(body_size) ==
    IF body_size = NoSize THEN 411
    ELSE IF body_size > max_publish_size THEN 413
    ELSE Collected(body_size)

\* ---- the framing of a publish body (put_publish_crate).  A body is a
\* sequence of bytes, each a number below 256.
u32_from_le_bytes(b) == b[1] + 256 * b[2] + 65536 * b[3] + 16777216 * b[4]
u32_to_le_bytes(n) ==
    << n % 256, (n \div 256) % 256, (n \div 65536) % 256, n \div 16777216 >>

None == [some |-> FALSE, slice |-> <<>>]
Some(slice) == [some |-> TRUE, slice |-> slice]

\* A slice that stops at the end of the data when the range runs past it.
GetClamped(data, from, to) ==
    IF from <= to /\ from <= Len(data)
    THEN Some(SubSeq(data, from + 1, IF to <= Len(data) THEN to ELSE Len(data)))
    ELSE None

\* data.get(from..to): the bytes from `from` up to `to`, or None when the
\* range is reversed or runs past the end of the data.
get(data, from, to) ==
    IF from <= to /\ to <= Len(data)
    THEN Some(SubSeq(data, from + 1, to))
    ELSE None

\* The metadata document of an upload, MetadataLength bytes that deserialize
\* to a PublishRequest; any other bytes do not.
MetadataBytes == <<123, 125>>
deserialize(json_bytes) == json_bytes = MetadataBytes

\* put_publish_crate from the collected body to the archive slice: the four
\* slices in the order the handler takes them.  status 0: the handler goes on
\* to the checksum and the registry lock; 400: it has returned.
FramingWith(archive_get(_, _, _), body_data) ==
    LET Bad(json) == [status |-> 400, json_bytes |-> json,
                      crate_data |-> <<>>, locks |-> FALSE]
        json_length_bytes == get(body_data, 0, 4)
        json_length == u32_from_le_bytes(json_length_bytes.slice)
        json_bytes == get(body_data, 4, json_length + 4)
        crate_length_bytes == get(body_data, 4 + json_length,
                                  4 + json_length + 4)
        crate_length == u32_from_le_bytes(crate_length_bytes.slice)
        crate_data == archive_get(body_data, 4 + json_length + 4,
                                  4 + json_length + 4 + crate_length)
    IN  IF ~json_length_bytes.some THEN Bad(<<>>)
        ELSE IF ~json_bytes.some THEN Bad(<<>>)
        ELSE IF ~deserialize(json_bytes.slice) THEN Bad(json_bytes.slice)
        ELSE IF ~crate_length_bytes.some THEN Bad(json_bytes.slice)
        ELSE IF ~crate_data.some THEN Bad(json_bytes.slice)
        ELSE [status |-> 0, json_bytes |-> json_bytes.slice,
              crate_data |-> crate_data.slice, locks |-> TRUE]

\* The archive taken as whatever follows its length, up to the length.
FramingArchiveClamped(body_data) == FramingWith(GetClamped, body_data)

Framing(body_data) == FramingWith(get, body_data)

\* serde_path_to_error: the detail of a metadata document whose name is no
\* crate name.
DeserializeDetail(err) == <<"name", ": ", err>>

\* The body of an upload of the archive `bytes`, and what the handler makes
\* of it when the last `cut` bytes are missing.
Body(bytes) ==
    u32_to_le_bytes(MetadataLength) \o MetadataBytes
        \o u32_to_le_bytes(Len(bytes)) \o bytes
Upload(bytes, cut) ==
    LET body_data == SubSeq(Body(bytes), 1, Len(Body(bytes)) - cut)
    IN  [body_data |-> body_data, framed |-> Framing(body_data)]

\* put_publish_crate up to the lock, as the request it leaves: the
\* authorization, the size checks, the framing, the metadata.
PublishPassed(h, n, v, u, body_size) ==
    [NewReq("publish", "pub_lock", n.crate_name.name, v, u.framed.crate_data)
        EXCEPT !.raw = n.raw, !.header = h.header, !.body_size = body_size,
               !.body_data = u.body_data]

\* The size checks made before the authorization.
PublishCheckedSizeFirst(h, n, v, u, exact) ==
    LET body_size == size_hint(u.body_data, exact)
        gate == SizeGate(body_size)
        sized == [Rejected("publish", h, gate) EXCEPT !.body_size = body_size]
        collected == [sized EXCEPT !.body_data = u.body_data]
    IN  IF gate # 0 THEN sized
        ELSE IF h.status # 0 THEN Rejected("publish", h, h.status)
        ELSE IF u.framed.status # 0
        THEN [collected EXCEPT !.status = u.framed.status]
        ELSE IF ~n.crate_name.ok
        THEN [collected EXCEPT !.status = 400, !.raw = n.raw,
                               !.detail = DeserializeDetail(n.crate_name.err)]
        ELSE PublishPassed(h, n, v, u, body_size)

PublishChecked(h, n, v, u, exact) ==
    LET body_size == size_hint(u.body_data, exact)
        gate == SizeGate(body_size)
        sized == [Rejected("publish", h, gate) EXCEPT !.body_size = body_size]
        collected == [sized EXCEPT !.body_data = u.body_data]
    IN  IF h.status # 0 THEN Rejected("publish", h, h.status)
        ELSE IF gate # 0 THEN sized
        ELSE IF u.framed.status # 0
        THEN [collected EXCEPT !.status = u.framed.status]
        ELSE IF ~n.crate_name.ok
        THEN [collected EXCEPT !.status = 400, !.raw = n.raw,
                               !.detail = DeserializeDetail(n.crate_name.err)]
        ELSE PublishPassed(h, n, v, u, body_size)

StartPublish(r) ==
    \E h \in inputs.headers, n \in inputs.names, v \in inputs.versions,
       u \in inputs.uploads, exact \in inputs.exact :
        Start(r, PublishChecked(h, n, v, u, exact))

\* let _guard = state.lock.write().await;
PublishLock(r) ==
    /\ req[r].pc = "pub_lock"
    /\ CanWrite
    /\ Acquire(r, [lock EXCEPT !.writer = r], "pub_read")

DuplicateDetail(name, version) ==
    <<"Crate ", name, " already has version ", VersionToString(version)>>

\* The duplicate check left out.
HasVersionNever(entries, version) == FALSE

HasVersion(entries, version) ==
    \E i \in 1..Len(entries) : entries[i].vers = version

\* A publish that takes a stored index it cannot parse for an empty index.
PublishReadLenient(r) ==
    /\ req[r].pc = "pub_read"
    /\ LET name == req[r].name
           version == crate_version(req[r].vers)
           res == read_index_file(name, FALSE)
           index_file == IF res.tag = "Ok" THEN res.entries ELSE <<>>
           index_entry == IndexEntry(name, version, cksum(req[r].bytes), FALSE)
       IN  IF HasVersion(index_file, version)
           THEN Return(r, 400, DuplicateDetail(name, version), <<>>, files, FALSE)
           ELSE Goto(r, "pub_wr_crate", Append(index_file, index_entry), files)

\* A publish that writes the index as it read it, without the new entry.
PublishReadNoEntry(r) ==
    /\ req[r].pc = "pub_read"
    /\ \E fault \in FaultChoices :
        LET name == req[r].name
            version == crate_version(req[r].vers)
            res == read_index_file(name, fault)
            index_file == IF res.tag = "Ok" THEN res.entries ELSE <<>>
        IN  IF res.tag \notin {"Ok", "NotFound"}
            THEN Return(r, StorageErrorStatus(res.tag), StorageErrorDetail(res.tag),
                        <<>>, files, fault)
            ELSE IF HasVersion(index_file, version)
            THEN Return(r, 400, DuplicateDetail(name, version), <<>>, files, fault)
            ELSE Goto(r, "pub_wr_crate", index_file, files)

\* read_index_file, the duplicate check and the construction of the new entry.
PublishRead(r) ==
    /\ req[r].pc = "pub_read"
    /\ \E fault \in FaultChoices :
        LET name == req[r].name
            version == crate_version(req[r].vers)
            res == read_index_file(name, fault)
            index_file == IF res.tag = "Ok" THEN res.entries ELSE <<>>
            index_entry == IndexEntry(name, version, cksum(req[r].bytes), FALSE)
        IN  IF res.tag \notin {"Ok", "NotFound"}
            THEN Return(r, StorageErrorStatus(res.tag), StorageErrorDetail(res.tag),
                        <<>>, files, fault)
            ELSE IF HasVersion(index_file, version)
            THEN Return(r, 400, DuplicateDetail(name, version), <<>>, files, fault)
            ELSE Goto(r, "pub_wr_crate", Append(index_file, index_entry), files)

\* write_crate_file with its result dropped: a failed archive write goes on
\* to the index write.
PublishWriteCrateUnchecked(r) ==
    /\ req[r].pc = "pub_wr_crate"
    /\ \E fault \in FaultChoices :
        LET key == WriteCrateKey(req[r].name, crate_version(req[r].vers))
        IN  IF fault
            THEN /\ req' = [req EXCEPT ![r] = [@ EXCEPT !.pc = "pub_wr_index"]]
                 /\ faults' = faults + 1
                 /\ UNCHANGED <<call, inputs, variant, dirs, detached, files, lock, started, cancels, stable>>
            ELSE IF variant = "s3"
            THEN Goto(r, "pub_wr_index", req[r].index_file, Written(key, req[r].bytes))
            ELSE IF ~CanCreate(key)
            THEN Return(r, 500, StorageErrorDetail("Io"), <<>>, files, fault)
            ELSE Goto(r, "pub_wr_crate_mid", req[r].index_file, Created(key))

\* write_crate_file: File::create (local) or the whole put_object (s3).
PublishWriteCrate(r) ==
    /\ req[r].pc = "pub_wr_crate"
    /\ \E fault \in FaultChoices :
        LET key == WriteCrateKey(req[r].name, crate_version(req[r].vers))
        IN  IF variant = "s3"
            THEN IF fault
                 THEN Return(r, 500, StorageErrorDetail("S3"), <<>>, files, fault)
                 ELSE Goto(r, "pub_wr_index", req[r].index_file,
                           Written(key, req[r].bytes))
            ELSE IF fault \/ ~CanCreate(key)
                 THEN Return(r, 500, StorageErrorDetail("Io"), <<>>, files, fault)
                 ELSE Goto(r, "pub_wr_crate_mid", req[r].index_file, Created(key))

\* write_crate_file on the local variant: write_all.
PublishWriteCrateMid(r) ==
    /\ req[r].pc = "pub_wr_crate_mid"
    /\ \E fault \in FaultChoices :
        LET key == WriteCrateKey(req[r].name, crate_version(req[r].vers))
        IN  IF fault
            THEN \E torn \in TornCrate(req[r].bytes) :
                    Return(r, 500, StorageErrorDetail("Io"), <<>>,
                           Written(key, torn), fault)
            ELSE Goto(r, "pub_wr_index", req[r].index_file,
                      Written(key, req[r].bytes))

\* The warnings of a publish response: invalid_categories, invalid_badges and
\* other, which holds one warning when the uploaded version had build metadata.
StrBuildIgnored == <<"Build metadata in crate version was ignored: ">>
PublishBody(vers) ==
    << <<>>, <<>>,
       IF vers.build # <<>> THEN <<StrBuildIgnored \o vers.build>> ELSE <<>> >>

\* The index write of a handler at pc `at`: File::create (local) or the
\* whole put_object (s3); on success the handler returns `body`.
WriteIndex(r, at, mid, body) ==
    /\ req[r].pc = at
    /\ \E fault \in FaultChoices :
        LET key == IndexKey(req[r].name)
            contents == to_bytes(req[r].index_file)
        IN  IF variant = "s3"
            THEN IF fault
                 THEN Return(r, 500, StorageErrorDetail("S3"), <<>>, files, fault)
                 ELSE Return(r, 200, <<>>, body, Written(key, contents), fault)
            ELSE IF fault \/ ~CanCreate(key)
                 THEN Return(r, 500, StorageErrorDetail("Io"), <<>>, files, fault)
                 ELSE Goto(r, mid, req[r].index_file, Created(key))

\* The index write on the local variant: write_all.
WriteIndexMid(r, mid, body) ==
    /\ req[r].pc = mid
    /\ \E fault \in FaultChoices :
        LET key == IndexKey(req[r].name)
            contents == to_bytes(req[r].index_file)
        IN  IF fault
            THEN \E torn \in TornIndex(contents) :
                    Return(r, 500, StorageErrorDetail("Io"), <<>>,
                           Written(key, torn), fault)
            ELSE Return(r, 200, <<>>, body, Written(key, contents), fault)

PublishWriteIndex(r) == WriteIndex(r, "pub_wr_index", "pub_wr_index_mid", PublishBody(req[r].vers))
PublishWriteIndexMid(r) == WriteIndexMid(r, "pub_wr_index_mid", PublishBody(req[r].vers))

\* ------------------------------------------------------------ yank / unyank
StartYank(r) ==
    \E h \in inputs.headers, n \in inputs.names, v \in inputs.versions :
        StartNamed(r, "yank", "yk_lock", h, n.raw, n.crate_name, v, 404)

StartUnyank(r) ==
    \E h \in inputs.headers, n \in inputs.names, v \in inputs.versions :
        StartNamed(r, "unyank", "yk_lock", h, n.raw, n.crate_name, v, 404)

YankLock(r) ==
    /\ req[r].pc = "yk_lock"
    /\ CanWrite
    /\ Acquire(r, [lock EXCEPT !.writer = r], "yk_read")

\* A search that settles for the first entry, whatever its version.
FindEntryAny(entries, version) == IF Len(entries) > 0 THEN 1 ELSE 0

\* The first entry whose vers matches, or 0.
FindEntry(entries, version) ==
    IF HasVersion(entries, version)
    THEN CHOOSE i \in 1..Len(entries) :
            /\ entries[i].vers = version
            /\ \A j \in 1..(i - 1) : entries[j].vers # version
    ELSE 0

\* A handler that flips the flag it finds instead of setting it.
YankReadToggle(r) ==
    /\ req[r].pc = "yk_read"
    /\ \E fault \in FaultChoices :
        LET res == read_index_file(req[r].name, fault)
            i == FindEntry(res.entries, req[r].vers)
        IN  IF res.tag # "Ok"
            THEN Return(r, StorageErrorStatus(res.tag), StorageErrorDetail(res.tag),
                        <<>>, files, fault)
            ELSE IF i = 0
            THEN Return(r, 404, <<>>, <<>>, files, fault)
            ELSE Goto(r, "yk_wr_index",
                      [res.entries EXCEPT ![i].yanked = ~@], files)

\* delete_yank_crate / put_unyank_crate: read, find, set the flag.
YankRead(r) ==
    /\ req[r].pc = "yk_read"
    /\ \E fault \in FaultChoices :
        LET res == read_index_file(req[r].name, fault)
            i == FindEntry(res.entries, req[r].vers)
        IN  IF res.tag # "Ok"
            THEN Return(r, StorageErrorStatus(res.tag), StorageErrorDetail(res.tag),
                        <<>>, files, fault)
            ELSE IF i = 0
            THEN Return(r, 404, <<>>, <<>>, files, fault)
            ELSE Goto(r, "yk_wr_index",
                      [res.entries EXCEPT ![i].yanked = (req[r].op = "yank")],
                      files)

YankWriteIndex(r) == WriteIndex(r, "yk_wr_index", "yk_wr_index_mid", OkBody)
YankWriteIndexMid(r) == WriteIndexMid(r, "yk_wr_index_mid", OkBody)

\* -------------------------------------------------------------- fetch_index
StartFetchIndex(r) ==
    \E h \in inputs.headers, n \in inputs.names :
        StartNamed(r, "fetch_index", "fi_lock", h, n.raw, n.from_path, V100, 404)

\* let _guard = state.lock.read().await;
FetchIndexLock(r) ==
    /\ req[r].pc = "fi_lock"
    /\ CanRead
    /\ Acquire(r, [lock EXCEPT !.readers = @ \cup {r}], "fi_read")

\* get_index_file: read under the guard, drop it, re-serialize.
FetchIndexRead(r) ==
    /\ req[r].pc = "fi_read"
    /\ \E fault \in FaultChoices :
        LET res == read_index_file(req[r].name, fault)
        IN  IF res.tag # "Ok"
            THEN Return(r, StorageErrorStatus(res.tag), StorageErrorDetail(res.tag),
                        <<>>, files, fault)
            ELSE Return(r, 200, <<>>, to_bytes(res.entries), files, fault)

\* ------------------------------------------------------------ fetch_archive
StartFetchArchive(r) ==
    \E h \in inputs.headers, n \in inputs.names, v \in inputs.versions :
        StartNamed(r, "fetch_archive", "fa_lock", h, n.raw, n.crate_name, v, 404)

FetchArchiveLock(r) ==
    /\ req[r].pc = "fa_lock"
    /\ CanRead
    /\ Acquire(r, [lock EXCEPT !.readers = @ \cup {r}], "fa_read")

\* get_download_crate: read_crate_file under the guard.  The local variant
\* opens the file and returns a stream over it; the object store returns
\* the whole object.  The guard is dropped when the block ends.
FetchArchiveRead(r) ==
    /\ req[r].pc = "fa_read"
    /\ \E fault \in FaultChoices :
        LET key == ReadCrateKey(req[r].name, req[r].vers)
        IN  IF variant = "s3"
            THEN IF fault \/ ~Exists(key)
                 THEN Return(r, 500, StorageErrorDetail("S3"), <<>>, files, fault)
                 ELSE Return(r, 200, <<>>, files[key], files, fault)
            ELSE IF fault
                 THEN Return(r, 500, StorageErrorDetail("Io"), <<>>, files, fault)
                 ELSE IF ~Exists(key)
                 THEN Return(r, 404, StorageErrorDetail("NotFound"), <<>>, files, fault)
                 ELSE /\ req' = [req EXCEPT ![r] =
                                    [@ EXCEPT !.pc = "fa_stream", !.status = 200]]
                      /\ lock' = Release(r)
                      /\ stable' = NextStable(lock', files)
                      /\ UNCHANGED <<call, inputs, variant, dirs, detached, files, started, faults, cancels>>

\* Body::from_stream(ReaderStream::new(file)): the response body is read
\* from the open file chunk by chunk while it is sent.
FetchArchiveStream(r) ==
    /\ req[r].pc = "fa_stream"
    /\ LET data == files[ReadCrateKey(req[r].name, req[r].vers)]
           pos == Len(req[r].body)
       IN  IF pos < Len(data)
           THEN req' = [req EXCEPT ![r] = [@ EXCEPT !.body = Append(@, data[pos + 1])]]
           ELSE req' = [req EXCEPT ![r] = [@ EXCEPT !.pc = "done"]]
    /\ UNCHANGED <<call, inputs, variant, dirs, detached, files, lock, started, faults, cancels, stable>>

\* ------------------------------------------------------------- cancellation
\* The points where a handler awaits: the lock, a storage call not yet
\* performed, the client reading the streamed body.
AwaitPoints ==
    {"pub_lock", "pub_read", "pub_wr_crate", "pub_wr_index",
     "yk_lock", "yk_read", "yk_wr_index",
     "fi_lock", "fi_read", "fa_lock", "fa_read", "fa_stream"}

\* The handler awaits a local write whose file is created and not yet filled.
MidPoints == {"pub_wr_crate_mid", "pub_wr_index_mid", "yk_wr_index_mid"}

\* The awaits of a storage write.
WritePoints ==
    {"pub_wr_crate", "pub_wr_index", "yk_wr_index"} \cup MidPoints

\* The storage write the handler of slot r awaits at a write point.
PendingWrite(r) ==
    IF req[r].pc \in {"pub_wr_crate", "pub_wr_crate_mid"}
    THEN [key |-> WriteCrateKey(req[r].name, crate_version(req[r].vers)),
          bytes |-> req[r].bytes, lines |-> <<>>,
          mid |-> req[r].pc \in MidPoints]
    ELSE [key |-> IndexKey(req[r].name),
          bytes |-> <<>>, lines |-> to_bytes(req[r].index_file),
          mid |-> req[r].pc \in MidPoints]

\* What becomes of the write a dropped handler was awaiting.  On the local
\* variant tokio::fs::write runs std::fs::write on the blocking pool, and
\* dropping the future that awaits it does not stop it: a write under way
\* goes on, one not yet under way may still happen.  On the object store the
\* put_object request has reached the bucket by then or it has not.
Abandoned(r) ==
    IF variant = "s3" THEN {{}}
    ELSE IF req[r].pc \in MidPoints THEN {{PendingWrite(r)}}
    ELSE IF req[r].pc \in WritePoints THEN {{}, {PendingWrite(r)}}
    ELSE {{}}

AbandonedPut(r) ==
    IF variant = "s3" /\ req[r].pc \in WritePoints
    THEN {files,
          Written(PendingWrite(r).key,
                  PendingWrite(r).bytes \o PendingWrite(r).lines)}
    ELSE {files}

\* The client goes away: the handler's future is dropped, and its guard with it.
Cancel(r) ==
    /\ req[r].pc \in AwaitPoints \cup MidPoints
    /\ cancels < inputs.cancels
    /\ cancels' = cancels + 1
    /\ req' = [req EXCEPT ![r] =
                  [@ EXCEPT !.pc = "done", !.status = 0, !.index_file = <<>>]]
    /\ lock' = Release(r)
    /\ \E left \in Abandoned(r) : detached' = detached \cup left
    /\ files' \in AbandonedPut(r)
    /\ stable' = IF Quiet(lock', detached') THEN files' ELSE stable
    /\ UNCHANGED <<call, inputs, variant, dirs, started, faults>>

\* A write left behind by a dropped handler takes its next step: File::create,
\* then write_all.  Nobody waits for its result and no guard is held for it.
DetachedWrite(w) ==
    /\ w \in detached
    /\ LET rest == detached \ {w}
       IN  IF w.mid
           THEN files' = Written(w.key, w.bytes \o w.lines) /\ detached' = rest
           ELSE IF CanCreate(w.key)
           THEN /\ files' = Created(w.key)
                /\ detached' = rest \cup {[w EXCEPT !.mid = TRUE]}
           ELSE files' = files /\ detached' = rest
    /\ stable' = IF Quiet(lock, detached') THEN files' ELSE stable
    /\ UNCHANGED <<call, inputs, variant, dirs, lock, req, started, faults, cancels>>

\* The authorization the server is configured with; the headers, names,
\* versions and uploads the clients of a behaviour send, and whether they
\* declare the length of a body; how many requests they start, how many
\* storage operations fail and how many requests are dropped.  A name is sent as the client spells
\* it, `raw`; beside it stand what CrateName::new makes of it and what
\* from_index_path makes of the index path a client derives from it.
Sent(raw) ==
    [raw |-> raw, crate_name |-> CrateName_new(raw),
     from_path |-> from_index_path(PathString(index_path(raw)))]
\* A header, and beside it the status the authorization answers it with.
Presented(auth, h) == [header |-> h, status |-> Authorize(auth, h)]
BaseInputs ==
    [auth |-> "None", headers |-> {Presented("None", NoAuthorization)},
     names |-> {Sent(n) : n \in Names}, versions |-> Versions,
     uploads |-> {Upload(b, 0) : b \in Uploads}, exact |-> BOOLEAN,
     starts |-> MaxStarts, faults |-> MaxFaults, cancels |-> MaxCancels]

\* Clients that spell one package in two ways and a second package, and
\* versions that differ by build metadata only; no failures.
NameFooMixed == <<"F", "o", "O">>
NameFo == <<"f", "o">>
V100a == Version(1, 0, 0, <<>>, <<"a">>)
V100b == Version(1, 0, 0, <<>>, <<"b">>)
WireInputs ==
    [BaseInputs EXCEPT
        !.names = {Sent(n) : n \in {NameFoo, NameFooMixed, NameFo}},
        !.versions = {V100, V100a, V100b}, !.uploads = {Upload(BytesA, 0)},
        !.exact = {TRUE}, !.faults = 0, !.cancels = 0]

\* A server with token authorization, or with none; clients that send the
\* token, another token, a header that is no text, or no header; a name
\* that is no crate name; uploads that are whole, cut short, oversize, or
\* oversize and cut short.
NameBad == <<"1", "f">>
AuthHeaders(auth) ==
    IF auth = "None" THEN {NoAuthorization, Header("guess")}
    ELSE {NoAuthorization, Header(StrSecret), Header("guess"),
          OpaqueHeader("guess")}
AuthStarts == 2
AuthInputs(auth) ==
    [BaseInputs EXCEPT
        !.auth = auth,
        !.headers = {Presented(auth, h) : h \in AuthHeaders(auth)},
        !.names = {Sent(NameFoo), Sent(NameBad)},
        !.versions = {V100},
        !.uploads = {Upload(BytesA, 0), Upload(BytesA, 1), Upload(BytesOver, 0),
                     Upload(BytesLong, 1)},
        !.starts = AuthStarts, !.faults = 0, !.cancels = 0]

\* ------------------------------------------------------------ specification
\* Storage::new: the local root exists (LocalStorage::new checks it); what
\* is below it is the operator's business.  RwLock::new(()).
InitWith(in) ==
    /\ inputs = in
    /\ variant \in {"local", "s3"}
    /\ dirs \in IF variant = "local" THEN {{}, AllDirsOf(in)} ELSE {{}}
    /\ files = <<>>
    /\ lock = Unlocked
    /\ req = [r \in Reqs |-> IdleReq]
    /\ started = 0
    /\ faults = 0
    /\ cancels = 0
    /\ detached = {}
    /\ stable = <<>>
    /\ call = NoCall

Init == InitWith(BaseInputs)

Next ==
    \/ \E w \in detached : DetachedWrite(w)
    \/ \E r \in Reqs :
        \/ StartPublish(r)
        \/ PublishLock(r)
        \/ PublishRead(r)
        \/ PublishWriteCrate(r)
        \/ PublishWriteCrateMid(r)
        \/ PublishWriteIndex(r)
        \/ PublishWriteIndexMid(r)
        \/ StartYank(r)
        \/ StartUnyank(r)
        \/ YankLock(r)
        \/ YankRead(r)
        \/ YankWriteIndex(r)
        \/ YankWriteIndexMid(r)
        \/ StartFetchIndex(r)
        \/ FetchIndexLock(r)
        \/ FetchIndexRead(r)
        \/ StartFetchArchive(r)
        \/ FetchArchiveLock(r)
        \/ FetchArchiveRead(r)
        \/ FetchArchiveStream(r)
        \/ Cancel(r)

Spec == Init /\ [][Next]_vars

\* ------------------------------------------------------- wire specification
\* The same handlers, serving clients that spell names in mixed case and send
\* versions with build metadata, with a storage that does not fail and
\* clients that wait for their responses.
WireInit == InitWith(WireInputs)
WireNext ==
    \E r \in Reqs :
        \/ StartPublish(r)
        \/ PublishLock(r)
        \/ PublishRead(r)
        \/ PublishWriteCrate(r)
        \/ PublishWriteCrateMid(r)
        \/ PublishWriteIndex(r)
        \/ PublishWriteIndexMid(r)
        \/ StartYank(r)
        \/ StartUnyank(r)
        \/ YankLock(r)
        \/ YankRead(r)
        \/ YankWriteIndex(r)
        \/ YankWriteIndexMid(r)
        \/ StartFetchIndex(r)
        \/ FetchIndexLock(r)
        \/ FetchIndexRead(r)
        \/ StartFetchArchive(r)
        \/ FetchArchiveLock(r)
        \/ FetchArchiveRead(r)
        \/ FetchArchiveStream(r)
WireSpec == WireInit /\ [][WireNext]_vars

\* ------------------------------------------------------ access specification
\* The same handlers behind token authorization or none, serving clients
\* with and without the token and uploads that fail the checks a publish
\* makes before it takes the lock.
AuthInit == InitWith(AuthInputs("Token")) \/ InitWith(AuthInputs("None"))
AuthSpec == AuthInit /\ [][WireNext]_vars

\* ------------------------------------------------------ orphan specification
\* The server after a publish of (foo, 1.0.0) with the bytes BytesA wrote
\* its archive and then failed at, or was dropped before, its index write:
\* the archive is stored, no index file is, and on the local variant the
\* index write of the dropped handler may still be pending.
OrphanInputs ==
    [BaseInputs EXCEPT
        !.names = {Sent(NameFoo)}, !.versions = {V100},
        !.uploads = {Upload(BytesA, 0), Upload(BytesB, 0)},
        !.exact = {TRUE}, !.faults = 0, !.cancels = 0]
OrphanEntry == IndexEntry(NameFoo, crate_version(V100), cksum(BytesA), FALSE)
OrphanInit ==
    /\ inputs = OrphanInputs
    /\ variant \in {"local", "s3"}
    /\ dirs = IF variant = "local" THEN AllDirsOf(OrphanInputs) ELSE {}
    /\ files = (WriteCrateKey(NameFoo, crate_version(V100)) :> BytesA)
    /\ detached \in
         IF variant = "local"
         THEN {{}, {[key |-> IndexKey(NameFoo), bytes |-> <<>>,
                     lines |-> to_bytes(<<OrphanEntry>>), mid |-> FALSE]}}
         ELSE {{}}
    /\ lock = Unlocked
    /\ req = [r \in Reqs |-> IdleReq]
    /\ started = 0
    /\ faults = 0
    /\ cancels = 0
    /\ stable = files
    /\ call = NoCall
OrphanNext == WireNext \/ \E w \in detached : DetachedWrite(w)
OrphanSpec == OrphanInit /\ [][OrphanNext]_vars

\* ----------------------------------------------------- packages side by side
\* Two packages of two versions each; in a behaviour either a storage
\* operation fails or a request is dropped.
FrameInputs(faulty) ==
    [BaseInputs EXCEPT
        !.names = {Sent(NameFoo), Sent(NameFo)}, !.versions = {V100, V200},
        !.uploads = {Upload(BytesA, 0)}, !.exact = {TRUE},
        !.faults = IF faulty THEN MaxFaults ELSE 0,
        !.cancels = IF faulty THEN 0 ELSE MaxCancels]
FrameInit == InitWith(FrameInputs(TRUE)) \/ InitWith(FrameInputs(FALSE))
FrameSpec == FrameInit /\ [][Next]_vars

\* ------------------------------------------------------- fair specification
\* One package of one version, with a storage operation that may fail and a
\* request that may be dropped.
LiveInputs ==
    [BaseInputs EXCEPT
        !.versions = {V100}, !.uploads = {Upload(BytesA, 0)}, !.exact = {TRUE}]
LiveInit == InitWith(LiveInputs)

\* state.lock.read().await / state.lock.write().await of the handler in slot r.
LockStep(r) ==
    \/ PublishLock(r)
    \/ YankLock(r)
    \/ FetchIndexLock(r)
    \/ FetchArchiveLock(r)

\* The storage operations the handler in slot r awaits under its guard.
StorageStep(r) ==
    \/ PublishRead(r)
    \/ PublishWriteCrate(r)
    \/ PublishWriteCrateMid(r)
    \/ PublishWriteIndex(r)
    \/ PublishWriteIndexMid(r)
    \/ YankRead(r)
    \/ YankWriteIndex(r)
    \/ YankWriteIndexMid(r)
    \/ FetchIndexRead(r)
    \/ FetchArchiveRead(r)
    \/ FetchArchiveStream(r)

\* The runtime polls every task that can make progress and a storage
\* operation ends: weak fairness of the storage steps.  tokio's RwLock
\* queues its waiters first in, first out, so that a waiter is served once
\* the holders ahead of it are gone: strong fairness of the lock steps.
\* Clients owe nothing: no fairness of the starts and the drops.
Fairness ==
    \A r \in Reqs : WF_vars(StorageStep(r)) /\ SF_vars(LockStep(r))
LiveSpec == LiveInit /\ [][Next]_vars /\ Fairness

\* ------------------------------------------------------ codec specification
\* The name, path and index file codecs, applied to inputs a client or a
\* stored file can present, one application in a behaviour.  The server
\* state takes no part in them.
Call(fn, arg, out) ==
    /\ call = NoCall
    /\ call' = [fn |-> fn, arg |-> arg, out |-> out]
    /\ UNCHANGED <<inputs, variant, dirs, files, lock, req, started, faults,
                   cancels, detached, stable>>

\* A name of n letters.
LongName(n) == [i \in 1..n |-> LowerLetters[((i - 1) % 26) + 1]]

RawNames ==
    {<<>>, NameFoo, <<"F", "o", "o">>, <<"F", "O", "O">>, <<"a">>, <<"A", "1">>,
     <<"f", "o">>, <<"1", "a">>, <<"_", "a">>, <<"-", "a">>,
     <<"a", "-", "b", "_", "1">>, <<"a", ".", "b">>, <<"a", " ", "b">>,
     <<"a", "/", "b">>, <<"n", "u", "l">>, <<"N", "u", "l">>, <<"a", "s">>,
     <<"s", "e", "l", "f">>, <<"s", "e", "l", "f", "1">>,
     <<KelvinSign>>, <<"a", KelvinSign>>, <<KelvinSign, "1">>,
     <<SmallEAcute>>, <<"a", CapitalEAcute>>, <<CapitalDottedI>>,
     <<"a", CapitalDottedI>>,
     LongName(4), LongName(5), LongName(63), LongName(64), LongName(65),
     <<"A">> \o LongName(63), <<"A">> \o LongName(64)}

NewName == \E s \in RawNames : Call("CrateName::new", s, CrateName_new(s))

\* The names CrateName::new returns for the raw inputs.
ValidNames == {CrateName_new(s).name : s \in {t \in RawNames : CrateName_new(t).ok}}

\* name.index_path() handed back to from_index_path.
IndexPathOfName ==
    \E n \in ValidNames :
        LET path == PathString(index_path(n))
        IN  Call("index_path", n, [path |-> path, back |-> from_index_path(path)])

\* Paths a client can ask for under /index/.
Seg1 == <<"1">>
Seg2 == <<"2">>
Seg3 == <<"3">>
SegF == <<"f">>
SegAB == <<"a", "b">>
SegCD == <<"c", "d">>
SegDot == <<".">>
SegDotDot == <<".", ".">>
NameABCD == <<"a", "b", "c", "d">>
NameABCXXX == <<"a", "b", "c", "x", "x", "x">>
Rooted(path) == <<"/">> \o path

ShardPaths == {PathString(index_path(n)) : n \in ValidNames}
UpperPaths ==
    {PathString(<<Seg3, <<"F">>, <<"F", "O", "O">>>>),
     PathString(<<Seg3, <<"F">>, <<"F", "o", "o">>>>),
     PathString(<<Seg3, SegF, <<"F", "o", "o">>>>),
     PathString(<<Seg1, <<"A">>>>),
     PathString(<<<<"A", "B">>, <<"C", "D">>, <<"A", "B", "C", "D">>>>),
     PathString(<<SegAB, SegCD, <<"A", "B", "C", "D">>>>)}
OddPaths ==
    {<<>>, <<"/">>, NameFoo, Seg1, Rooted(NameFoo),
     PathString(<<Seg3, SegF, NameFoo, <<>>>>),
     PathString(<<Seg3, <<>>, SegF, NameFoo>>),
     PathString(<<Seg3, SegDot, SegF, NameFoo>>),
     PathString(<<Seg3, SegF, NameFoo, SegDot>>),
     PathString(<<SegDot, Seg3, SegF, NameFoo>>),
     PathString(<<SegDot, Seg1, <<"a">>>>),
     PathString(<<SegDotDot, Seg1, <<"a">>>>),
     PathString(<<Seg1, SegDotDot, <<"a">>>>),
     PathString(<<Seg3, SegF, SegDotDot, NameFoo>>),
     PathString(<<Seg3, SegF, NameFoo, SegDotDot>>),
     PathString(<<Seg3, SegF, NameFoo, <<"x">>>>),
     PathString(<<SegAB, SegCD, NameABCD, NameABCD, NameABCD>>),
     PathString(<<Seg1, SegAB>>),
     PathString(<<Seg2, <<"a">>>>),
     PathString(<<Seg2, NameFoo>>),
     PathString(<<Seg3, NameFoo>>),
     PathString(<<<<"4">>, SegAB>>),
     PathString(<<SegAB, SegAB>>),
     PathString(<<Seg3, <<"x">>, NameFoo>>),
     PathString(<<Seg3, SegF, <<"f", "o">>>>),
     PathString(<<Seg3, SegF, <<"f", "o", "o", "o">>>>),
     PathString(<<SegAB, SegCD, <<"a", "b", "c">>>>),
     PathString(<<SegAB, SegCD, NameABCXXX>>),
     PathString(<<SegAB, <<"c", "x">>, NameABCD>>),
     PathString(<<<<"x", "b">>, SegCD, NameABCD>>),
     PathString(<<Seg1, SegF, NameFoo>>),
     PathString(<<Seg1, <<KelvinSign>>>>),
     PathString(<<Seg3, <<SmallEAcute>>, <<SmallEAcute, "o", "o">>>>),
     PathString(<<Seg1, <<"1">>>>),
     PathString(<<Seg2, <<"a", ".">>>>),
     PathString(<<Seg3, <<"n">>, <<"n", "u", "l">>>>),
     PathString(index_path(LongName(65)))}
RawPaths ==
    ShardPaths \cup {Rooted(p) : p \in ShardPaths}
               \cup {Rooted(Rooted(p)) : p \in ShardPaths}
               \cup UpperPaths \cup {Rooted(p) : p \in UpperPaths} \cup OddPaths

\* get_index_file up to its storage call: the path is turned into a name,
\* and only a path that yields one goes on to the lock and read_index_file.
GetIndexFilePath ==
    \E path \in RawPaths :
        LET crate_name == from_index_path(path)
        IN  Call("get_index_file", path,
                 [crate_name |-> crate_name,
                  status |-> IF crate_name.ok THEN 0 ELSE 404,
                  reads |-> crate_name.ok])

\* Bodies: every prefix of a length, the metadata document, a length, two
\* archive bytes and one byte more, for declared lengths that fit, that
\* overrun the body, and that use the upper bytes of the length.
JsonLengths == {0, 1, MetadataLength, MetadataLength + 1, 256, 1073741824}
CrateLengths == {0, 1, 2, 3, 4, 65536, 536870912}
ArchiveBytes == <<7, 8>>
WholeBodies ==
    {u32_to_le_bytes(l1) \o MetadataBytes \o u32_to_le_bytes(l2)
        \o ArchiveBytes \o <<9>> : l1 \in JsonLengths, l2 \in CrateLengths}
RawBodies == WholeBodies \cup UNION {Prefixes(b) : b \in WholeBodies}

PublishFraming ==
    \E body_data \in RawBodies :
        Call("put_publish_crate", body_data, Framing(body_data))

\* ---- the dependencies of a publish (put_publish_crate).

\* PublishDependency, as uploaded.
PublishDependency(name, version_req, features, optional, default_features, target, kind, registry, explicit_name_in_toml) ==
    [name |-> name, version_req |-> version_req, features |-> features,
     optional |-> optional, default_features |-> default_features,
     target |-> target, kind |-> kind, registry |-> registry,
     explicit_name_in_toml |-> explicit_name_in_toml]

\* A dependency stored under the uploaded name, the new name in `package`.
IndexDependencySwapped(dep) ==
    [name |-> dep.name,
     req |-> dep.version_req, features |-> dep.features,
     optional |-> dep.optional, default_features |-> dep.default_features,
     target |-> dep.target, kind |-> dep.kind, registry |-> dep.registry,
     package |-> dep.explicit_name_in_toml]

\* The closure of publish_request.deps.into_iter().map(..): the
\* IndexDependency of one uploaded dependency.
IndexDependency(dep) ==
    LET renamed == dep.explicit_name_in_toml.some
        name == IF renamed THEN dep.explicit_name_in_toml.val ELSE dep.name
        package == IF renamed THEN Present(dep.name) ELSE Absent
    IN  [name |-> name,
         req |-> dep.version_req, features |-> dep.features,
         optional |-> dep.optional, default_features |-> dep.default_features,
         target |-> dep.target, kind |-> dep.kind, registry |-> dep.registry,
         package |-> package]

\* .map(..).collect(): one stored dependency per uploaded one, in order.
IndexDeps(deps) == [i \in 1..Len(deps) |-> IndexDependency(deps[i])]

\* Uploaded dependencies: plain, renamed, renamed to the empty string and
\* renamed to its own name, with the other fields set and unset.
DepSerde ==
    PublishDependency("serde", "^1", <<"derive">>, FALSE, TRUE, Absent,
                      "normal", Absent, Absent)
DepRenamed ==
    PublishDependency("rand", ">=0.8, <0.9", <<>>, TRUE, FALSE,
                      Present("cfg(windows)"), "dev",
                      Present("https://example.com/index"), Present("rng"))
DepRenamedEmpty ==
    PublishDependency("libc", "*", <<"a", "b">>, FALSE, FALSE, Absent, "build",
                      Absent, Present(""))
DepRenamedSame ==
    PublishDependency("log", "=0.4.1", <<>>, TRUE, TRUE, Absent, "normal",
                      Absent, Present("log"))
SomeDeps == {DepSerde, DepRenamed, DepRenamedEmpty, DepRenamedSame}
MaxDeps == 3
UploadedDeps == UNION {[1..n -> SomeDeps] : n \in 0..MaxDeps}

PublishDeps ==
    \E deps \in UploadedDeps : Call("IndexEntry::deps", deps, IndexDeps(deps))

\* ---- the minimum language version of an entry (MinRustVersion).
\* semver's parser, as far as Comparator::from_str uses it: every function
\* takes the text and gives what it read and the text that is left.
Alphanumerics == Range(LowerLetters) \cup Range(UpperLetters) \cup Range(Digits)

RECURSIVE trim_start_matches(_, _)
trim_start_matches(text, c) ==
    IF text # <<>> /\ text[1] = c THEN trim_start_matches(Tail(text), c)
    ELSE text

\* The number of leading characters of text that are in chars.
RECURSIVE Run(_, _)
Run(text, chars) ==
    IF text # <<>> /\ text[1] \in chars THEN 1 + Run(Tail(text), chars) ELSE 0
Rest(text, n) == SubSeq(text, n + 1, Len(text))

\* parse::op: the operator the text begins with; Caret when it has none.
parse_op(input) ==
    LET Is(i, c) == Len(input) >= i /\ input[i] = c
    IN  IF Is(1, "=") THEN [op |-> "Exact", rest |-> Rest(input, 1)]
        ELSE IF Is(1, ">") /\ Is(2, "=")
        THEN [op |-> "GreaterEq", rest |-> Rest(input, 2)]
        ELSE IF Is(1, ">") THEN [op |-> "Greater", rest |-> Rest(input, 1)]
        ELSE IF Is(1, "<") /\ Is(2, "=")
        THEN [op |-> "LessEq", rest |-> Rest(input, 2)]
        ELSE IF Is(1, "<") THEN [op |-> "Less", rest |-> Rest(input, 1)]
        ELSE IF Is(1, "~") THEN [op |-> "Tilde", rest |-> Rest(input, 1)]
        ELSE IF Is(1, "^") THEN [op |-> "Caret", rest |-> Rest(input, 1)]
        ELSE [op |-> "Caret", rest |-> input]

\* parse::numeric_identifier: digits, no leading zero.
numeric_identifier(text) ==
    LET n == Run(text, Range(Digits))
    IN  IF n = 0 \/ (n > 1 /\ text[1] = "0")
        THEN [ok |-> FALSE, val |-> 0, rest |-> text]
        ELSE [ok |-> TRUE, val |-> StrToNum(SubSeq(text, 1, n)),
              rest |-> Rest(text, n)]

\* parse::wildcard
wildcard(text) == text # <<>> /\ text[1] \in {"*", "x", "X"}

\* parse::prerelease_identifier and parse::build_identifier: the run of
\* letters, digits, "-" and "."; no segment between dots may be empty, and
\* a pre-release segment of digits only may not begin with "0".
identifier(text, numeric_rule) ==
    LET n == Run(text, Alphanumerics \cup {"-", "."})
        ident == SubSeq(text, 1, n)
        segments == SplitOn(ident, ".")
        bad == \E i \in 1..Len(segments) :
                  \/ segments[i] = <<>>
                  \/ /\ numeric_rule
                     /\ Len(segments[i]) > 1
                     /\ segments[i][1] = "0"
                     /\ \A j \in 1..Len(segments[i]) :
                            segments[i][j] \in Range(Digits)
    IN  IF n = 0 \/ bad THEN [ok |-> FALSE, val |-> <<>>, rest |-> text]
        ELSE [ok |-> TRUE, val |-> ident, rest |-> Rest(text, n)]

NoPart == [some |-> FALSE, val |-> 0]
Part(n) == [some |-> TRUE, val |-> n]
NoComparator ==
    [ok |-> FALSE, op |-> "Caret", major |-> 0, minor |-> NoPart,
     patch |-> NoPart, pre |-> <<>>, rest |-> <<>>]

\* parse::comparator
comparator(input) ==
    LET o == parse_op(input)
        default_op == Len(input) = Len(o.rest)
        major == numeric_identifier(trim_start_matches(o.rest, " "))
        t1 == major.rest
        dot1 == t1 # <<>> /\ t1[1] = "."
        wild1 == dot1 /\ wildcard(Tail(t1))
        minor == IF dot1 /\ ~wild1 THEN numeric_identifier(Tail(t1))
                 ELSE [ok |-> TRUE, val |-> 0,
                       rest |-> IF wild1 THEN Rest(t1, 2) ELSE t1]
        t2 == minor.rest
        dot2 == t2 # <<>> /\ t2[1] = "."
        wild2 == dot2 /\ wildcard(Tail(t2))
        patch == IF dot2 /\ ~wild2 THEN numeric_identifier(Tail(t2))
                 ELSE [ok |-> TRUE, val |-> 0,
                       rest |-> IF wild2 THEN Rest(t2, 2) ELSE t2]
        has_patch == dot2 /\ ~wild2
        t3 == patch.rest
        has_pre == has_patch /\ t3 # <<>> /\ t3[1] = "-"
        pre == IF has_pre THEN identifier(Tail(t3), TRUE)
               ELSE [ok |-> TRUE, val |-> <<>>, rest |-> t3]
        t4 == pre.rest
        has_build == has_patch /\ t4 # <<>> /\ t4[1] = "+"
        build == IF has_build THEN identifier(Tail(t4), FALSE)
                 ELSE [ok |-> TRUE, val |-> <<>>, rest |-> t4]
    IN  IF ~major.ok THEN NoComparator
        ELSE IF ~minor.ok THEN NoComparator
        ELSE IF dot2 /\ ~wild2 /\ wild1 THEN NoComparator
        ELSE IF ~patch.ok THEN NoComparator
        ELSE IF ~pre.ok THEN NoComparator
        ELSE IF ~build.ok THEN NoComparator
        ELSE [ok |-> TRUE,
              op |-> IF default_op /\ (wild1 \/ wild2) THEN "Wildcard" ELSE o.op,
              major |-> major.val,
              minor |-> IF dot1 /\ ~wild1 THEN Part(minor.val) ELSE NoPart,
              patch |-> IF has_patch THEN Part(patch.val) ELSE NoPart,
              pre |-> pre.val,
              rest |-> trim_start_matches(build.rest, " ")]

\* semver::Comparator::from_str: leading spaces dropped, nothing may be left.
Comparator_from_str(text) ==
    LET c == comparator(trim_start_matches(text, " "))
    IN  IF c.ok /\ c.rest = <<>> THEN c ELSE NoComparator

MinRustVersionErr(err) ==
    [ok |-> FALSE, err |-> err, major |-> 0, minor |-> NoPart,
     patch |-> NoPart, pre |-> <<>>]

\* MinRustVersion::from_str
MinRustVersion_from_str(s) ==
    IF \E i \in 1..Len(s) : s[i] = "^" THEN MinRustVersionErr("Op")
    ELSE LET c == Comparator_from_str(s)
         IN  IF ~c.ok THEN MinRustVersionErr("Semver")
             ELSE IF c.op # "Caret" THEN MinRustVersionErr("Op")
             ELSE [ok |-> TRUE, err |-> "none", major |-> c.major,
                   minor |-> c.minor, patch |-> c.patch, pre |-> c.pre]

\* Display for MinRustVersion
MinRustVersion_fmt(v) ==
    NumToStr(v.major)
    \o (IF v.minor.some
        THEN <<".">> \o NumToStr(v.minor.val)
             \o (IF v.patch.some
                 THEN <<".">> \o NumToStr(v.patch.val)
                      \o (IF v.pre # <<>> THEN <<"-">> \o v.pre ELSE <<>>)
                 ELSE <<>>)
        ELSE <<>>)

\* Texts of a rust_version field: bare versions, operators, wildcards,
\* malformed numbers and identifiers, build metadata, spaces.
RustVersionTexts ==
    {<<"1">>, <<"1", ".", "5", "6">>, <<"1", ".", "5", "6", ".", "0">>,
     <<"1", ".", "5", "6", ".", "0", "-", "b", "e", "t", "a", ".", "1">>,
     <<"1", ".", "7", "0", ".", "0", "-", "n", "i", "g", "h", "t", "l", "y">>,
     <<"1", "0", ".", "2", "0", ".", "3", "0">>, <<"0">>,
     <<"0", ".", "0", ".", "0">>, <<"^", "1", ".", "5", "6">>,
     <<"=", "1", ".", "5", "6">>, <<">", "=", "1", ".", "5", "6">>,
     <<">", "1">>, <<"<", "1">>, <<"<", "=", "1">>, <<"~", "1", ".", "2">>,
     <<"1", ".", "5", "6", "^">>, <<"1", ".", "*">>, <<"1", ".", "x">>,
     <<"1", ".", "X">>, <<"*">>, <<"1", ".", "2", ".", "*">>,
     <<"1", ".", "*", ".", "3">>, <<"1", ".", "*", ".", "*">>, <<>>,
     <<"1", ".">>, <<"1", ".", "2", ".">>, <<"1", ".", "2", ".", "3", "-">>,
     <<"0", "1">>, <<"1", ".", "0", "2">>,
     <<"1", ".", "2", ".", "3", ".", "4">>, <<"1", "-", "b", "e", "t", "a">>,
     <<"1", ".", "2", "-", "b", "e", "t", "a">>, <<"a", ".", "b">>,
     <<"1", ".", "2", ".", "3", "-", "0", "1">>,
     <<"1", ".", "2", ".", "3", "-", "0", "a">>,
     <<"1", ".", "2", ".", "3", "-", "a", ".", ".", "b">>,
     <<"1", ".", "2", ".", "3", "-", "x">>,
     <<"1", ".", "2", ".", "3", "+", "b", "u", "i", "l", "d">>,
     <<"1", ".", "2", ".", "3", "-", "r", "c", ".", "1", "+", "b", "u", "i", "l", "d", ".", "5">>,
     <<"1", ".", "2", ".", "3", "+">>, <<" ", "1", ".", "5", "6">>,
     <<"1", ".", "5", "6", " ">>, <<"1", " ", ".", "2">>,
     <<"=", " ", "1", ".", "2">>}

\* An entry's rust_version read from its text, written back and read again.
ParseMinRustVersion ==
    \E s \in RustVersionTexts :
        LET parsed == MinRustVersion_from_str(s)
            rendered == IF parsed.ok THEN MinRustVersion_fmt(parsed) ELSE <<>>
        IN  Call("MinRustVersion::from_str", s,
                 [parsed |-> parsed, rendered |-> rendered,
                  back |-> MinRustVersion_from_str(rendered)])

\* ---- the keys of the stored objects.  Names whose shard directories, and
\* whose archive directories, are one another's names, and the directory of
\* the archives as a name.
KeyNames ==
    {n \in
        {<<"a">>,
         <<"b">>,
         <<"a", "b">>,
         <<"c", "d">>,
         <<"f", "o", "o">>,
         <<"f", "o", "b">>,
         <<"a", "b", "c", "d">>,
         <<"a", "b", "c", "e">>,
         <<"c", "r", "a", "t", "e", "s">>,
         <<"c", "r">>,
         <<"a", "t">>,
         <<"a", "b", "-", "c", "d">>,
         <<"a", "b", "_", "c", "d">>} : CrateName_new(n) = NameOk(n)}
KeyVersions == {V100, V200, V100a, Version(1, 0, 0, <<"a">>, <<>>)}

\* The keys the two storage variants use for the index file of a name and
\* for the archive of a name and version, each as the path text handed to
\* the file system or to the bucket.
KeysOf(name, version) ==
    [local_index |-> PathString(LocalIndexKey(name)),
     local_crate |-> PathString(LocalCrateKey(name, version)),
     s3_index |-> PathString(S3IndexKey(name)),
     s3_write_crate |-> PathString(S3WriteCrateKey(name, version)),
     s3_read_crate |-> PathString(S3ReadCrateKey(name, version))]

StorageKeys ==
    \E n1 \in KeyNames, n2 \in KeyNames, v1 \in KeyVersions, v2 \in KeyVersions :
        Call("Storage::keys", <<[name |-> n1, version |-> v1],
                                [name |-> n2, version |-> v2]>>,
             <<KeysOf(n1, v1), KeysOf(n2, v2)>>)

\* Index entries and index files to serialize.
V1023 == Version(10, 2, 3, <<>>, <<>>)
V100rc == Version(1, 0, 0, <<"r", "c", ".", "1">>, <<>>)
V100rcb == Version(1, 0, 0, <<"r", "c">>, <<"b", "7">>)
SomeEntries ==
    {IndexEntry(NameFoo, V100, cksum(BytesA), FALSE),
     IndexEntry(NameFoo, V1023, cksum(BytesB), TRUE),
     IndexEntry(NameABCD, V100rc, cksum(BytesA), FALSE),
     IndexEntry(<<"a", "-", "b", "_", "1">>, V100rcb, cksum(BytesB), TRUE)}
MaxEntries == 3
IndexFiles ==
    UNION {[1..n -> SomeEntries] : n \in 0..MaxEntries}

\* to_bytes, then from_bytes on what it wrote.
IndexFileRoundTrip ==
    \E f \in IndexFiles :
        LET bytes == IndexFile_to_bytes(f)
        IN  Call("IndexFile::to_bytes", f,
                 [bytes |-> bytes, back |-> IndexFile_from_bytes(bytes)])

\* Stored index files as some other tool, or a hand, can have written them.
Obj1 == to_writer(IndexEntry(NameFoo, V100, cksum(BytesA), FALSE))
Obj2 == to_writer(IndexEntry(NameFoo, V1023, cksum(BytesB), TRUE))
RawIndexes ==
    {<<>>, <<NL>>, <<NL, NL>>, <<SP>>, <<CR, NL>>,
     Obj1, Obj1 \o <<NL>>, Obj1 \o <<CR, NL>>, Obj1 \o <<CR>>,
     Obj1 \o <<SP, SP>>, <<SP>> \o Obj1,
     Obj1 \o <<NL>> \o Obj2, Obj1 \o <<CR, NL>> \o Obj2 \o <<CR, NL>>,
     Obj1 \o <<NL, NL>> \o Obj2, Obj1 \o <<NL, NL>>,
     <<NL>> \o Obj1, Obj1 \o <<NL, CR, NL>> \o Obj2,
     Obj1 \o <<NL, SP, NL>> \o Obj2,
     Obj1 \o Obj2, Obj1 \o <<SP>> \o Obj2, Obj1 \o <<CR>> \o Obj2,
     <<Garbage>>, Obj1 \o <<NL, Garbage>>, Obj1 \o <<Garbage>>}

ParseIndexFile ==
    \E bytes \in RawIndexes :
        Call("IndexFile::from_bytes", bytes, IndexFile_from_bytes(bytes))

CodecInit == Init
CodecNext ==
    \/ NewName
    \/ IndexPathOfName
    \/ GetIndexFilePath
    \/ PublishFraming
    \/ IndexFileRoundTrip
    \/ ParseIndexFile
    \/ PublishDeps
    \/ ParseMinRustVersion
    \/ StorageKeys
CodecSpec == CodecInit /\ [][CodecNext]_vars

\* ===================================================================== claims
\* Helpers of the statements below.
IsIndexKey(key) == \E n \in Names : key = IndexKey(n)

\* The lines of a stored index file; none when the file does not exist.
StoredLines(f, key) == IF key \in DOMAIN f THEN f[key] ELSE <<>>

\* semver equality of what is stored: major, minor, patch and pre-release.
SameVersion(a, b) ==
    /\ a.major = b.major
    /\ a.minor = b.minor
    /\ a.patch = b.patch
    /\ a.pre = b.pre

EntryIn(f, name, version) ==
    LET lines == StoredLines(f, IndexKey(name))
    IN  {i \in 1..Len(lines) :
            lines[i].kind = "json" /\ SameVersion(lines[i].entry.vers, version)}

\* C1: no stored index file holds two entries with the same version
\* (major, minor, patch, pre-release), whatever publishes, yanks and unyanks
\* ran, succeeded, failed or were dropped.
C1_NoDuplicateVersion ==
    \A n \in Names : \A v \in Versions : Cardinality(EntryIn(files, n, v)) <= 1

\* C1 witness: an index file with two entries, and a publish of a version
\* it already holds turned away.
C1_Witness ==
    \E n \in Names :
        /\ Cardinality(EntryIn(files, n, V100)) = 1
        /\ Cardinality(EntryIn(files, n, V200)) = 1
        /\ \E r \in Reqs :
            /\ req[r].op = "publish" /\ req[r].name = n
            /\ req[r].pc = "done" /\ req[r].status = 400

\* C2: every entry (P, V) of a stored index file has its archive object
\* stored, and the digest of the archive's bytes is the entry's cksum.
C2_ArchiveOfEveryEntry ==
    \A n \in Names : \A v \in Versions :
        \A i \in EntryIn(files, n, v) :
            LET key == WriteCrateKey(n, crate_version(v))
            IN  /\ Exists(key)
                /\ cksum(files[key]) = files[IndexKey(n)][i].entry.cksum

\* C3: a publish issues its index write only after its archive write has
\* completed: it comes to its index write only by the step that completes
\* its archive write, which leaves the archive of (P, V) stored whole, and
\* it changes the index file only from there on; a publish whose archive
\* write failed never gets there.
C3_ArchiveBeforeIndex ==
    [][\A r \in Reqs :
        LET key == WriteCrateKey(req[r].name, crate_version(req[r].vers))
            index == IndexKey(req[r].name)
        IN  /\ (req'[r].pc = "pub_wr_index" /\ req[r].pc # "pub_wr_index") =>
                /\ req[r].pc \in {"pub_wr_crate", "pub_wr_crate_mid"}
                /\ key \in DOMAIN files'
                /\ files'[key] = req[r].bytes
            /\ (/\ req[r].op = "publish" /\ ~Free(r) /\ req'[r] # req[r]
                /\ StoredLines(files', index) # StoredLines(files, index)) =>
                req[r].pc \in {"pub_wr_index", "pub_wr_index_mid"}
      ]_vars

\* C3 witness: an index write under way that adds an entry, the archive whole.
C3_Witness ==
    \E r \in Reqs :
        /\ req[r].pc = "pub_wr_index_mid"
        /\ files[WriteCrateKey(req[r].name, crate_version(req[r].vers))] = req[r].bytes
        /\ files[IndexKey(req[r].name)] = <<>>

\* The suspension points inside each kind of critical section.
ReaderSection == {"fi_read", "fa_read", "fa_stream"}
WriterSection ==
    {"pub_read", "pub_wr_crate", "pub_wr_crate_mid", "pub_wr_index",
     "pub_wr_index_mid", "yk_read", "yk_wr_index", "yk_wr_index_mid"}

\* C4: the registry lock is a reader/writer lock: a request that reads
\* storage for fetch_index or fetch_archive holds it shared, a request that
\* reads or writes storage for publish, yank or unyank holds it exclusive,
\* and an exclusive holder excludes every other holder.
C4_StorageOnlyUnderLock ==
    /\ lock.writer = 0 \/ lock.readers = {}
    /\ \A r \in Reqs : req[r].pc \in ReaderSection => r \in lock.readers
    /\ \A r \in Reqs : req[r].pc \in WriterSection => lock.writer = r

\* C5: a fetch_index returns exactly the index content stored when no
\* publish, yank or unyank was under way (before it started or after it
\* finished), and every entry it returns has its archive stored whole; it
\* answers 404 only if no index file was stored then.
C5_FetchIndexSeesWholeState ==
    [][\A r \in Reqs :
        (req[r].pc = "fi_read" /\ req'[r].pc = "done") =>
            LET key == IndexKey(req[r].name)
                body == req'[r].body
            IN  /\ req'[r].status = 200 =>
                    /\ key \in DOMAIN stable
                    /\ body = stable[key]
                    /\ \A i \in 1..Len(body) :
                        LET e == body[i].entry
                            archive == WriteCrateKey(e.name, e.vers)
                        IN  Exists(archive) /\ cksum(files[archive]) = e.cksum
                /\ req'[r].status = 404 => key \notin DOMAIN stable
      ]_vars

\* C6: no publish writes the archive object of (P, V) while a fetch_archive
\* of (P, V) is still reading it for its response body.
C6_NoArchiveWriteWhileStreaming ==
    \A f \in Reqs, w \in Reqs :
        ~ /\ req[f].op = "fetch_archive" /\ req[f].pc = "fa_stream"
          /\ req[w].op = "publish" /\ req[w].pc = "pub_wr_crate_mid"
          /\ WriteCrateKey(req[w].name, crate_version(req[w].vers))
                = ReadCrateKey(req[f].name, req[f].vers)

\* C7: on a storage that holds nothing for P, a well-formed publish of
\* (P, V) within the size limit that meets no storage fault succeeds and
\* leaves (P, V) live, and a fetch_archive(P, V) after it returns the
\* uploaded bytes.
C7_FirstPublishSucceeds ==
    /\ \A r \in Reqs :
        (/\ started = 1 /\ faults = 0 /\ cancels = 0
         /\ req[r].op = "publish" /\ req[r].pc = "done"
         /\ SizeGate(req[r].body_size) = 0) =>
            /\ req[r].status = 200
            /\ \E i \in EntryIn(files, req[r].name, req[r].vers) :
                ~files[IndexKey(req[r].name)][i].entry.yanked
    /\ \A r \in Reqs, f \in Reqs :
        (/\ started = 2 /\ faults = 0 /\ cancels = 0
         /\ req[r].op = "publish" /\ req[r].pc = "done" /\ req[r].status = 200
         /\ req[f].op = "fetch_archive" /\ req[f].pc = "done"
         /\ req[f].name = req[r].name /\ req[f].vers = req[r].vers) =>
            req[f].status = 200 /\ req[f].body = req[r].bytes

\* C8: a publish of a (P, V) that has an index entry is answered 400 with
\* the detail "Crate <name> already has version <v>" (unless the index read
\* itself fails or the request is dropped), and in every case leaves the
\* index file and the archive as they are, with one entry for V.
C8_DuplicateRejected ==
    [][\A r \in Reqs :
        LET name == req[r].name
            version == crate_version(req[r].vers)
        IN  (/\ req[r].op = "publish" /\ req[r].pc = "pub_read"
             /\ req'[r] # req[r]
             /\ from_bytes(StoredLines(files, IndexKey(name))).ok
             /\ EntryIn(files, name, version) # {}) =>
                /\ files' = files
                /\ Cardinality(EntryIn(files', name, version)) = 1
                /\ req'[r].pc = "done"
                /\ \/ /\ req'[r].status = 400
                      /\ req'[r].detail = DuplicateDetail(name, version)
                   \/ faults' # faults
                   \/ cancels' # cancels
      ]_vars

\* C8 witness: a second upload of (P, V) with other bytes was answered 400;
\* the entry and the archive are those of the first upload.
C8_Witness ==
    \E r \in Reqs :
        /\ req[r].op = "publish" /\ req[r].pc = "done" /\ req[r].status = 400
        /\ req[r].bytes = BytesB
        /\ req[r].detail = DuplicateDetail(req[r].name, req[r].vers)
        /\ Exists(WriteCrateKey(req[r].name, req[r].vers))
        /\ files[WriteCrateKey(req[r].name, req[r].vers)] = BytesA
        /\ \E i \in EntryIn(files, req[r].name, req[r].vers) :
            files[IndexKey(req[r].name)][i].entry.cksum = cksum(BytesA)

Front(seq) == SubSeq(seq, 1, Len(seq) - 1)

\* C9: writes to a package are serializable.  From its index read to its
\* index write a publish, yank or unyank finds stored exactly what it read,
\* so what it writes is the stored index plus its entry or its flag; and of
\* two publishes of the same (P, V) that meet no storage fault, if one
\* succeeded the other was answered 400.
C9_Serializable ==
    /\ \A r \in Reqs :
        LET stored == from_bytes(StoredLines(files, IndexKey(req[r].name)))
        IN  /\ req[r].pc \in {"pub_wr_crate", "pub_wr_crate_mid", "pub_wr_index"} =>
                stored.ok /\ stored.entries = Front(req[r].index_file)
            /\ req[r].pc = "yk_wr_index" =>
                /\ stored.ok
                /\ Len(stored.entries) = Len(req[r].index_file)
                /\ \A i \in 1..Len(stored.entries) :
                    \/ stored.entries[i] = req[r].index_file[i]
                    \/ /\ i = FindEntry(stored.entries, req[r].vers)
                       /\ req[r].index_file[i] =
                            [stored.entries[i] EXCEPT !.yanked = (req[r].op = "yank")]
    /\ \A r1 \in Reqs, r2 \in Reqs :
        (/\ faults = 0 /\ r1 # r2
         /\ req[r1].op = "publish" /\ req[r2].op = "publish"
         /\ req[r1].name = req[r2].name
         /\ crate_version(req[r1].vers) = crate_version(req[r2].vers)
         /\ req[r1].pc = "done" /\ req[r1].status = 200
         /\ req[r2].pc = "done" /\ req[r2].status # 0) =>
            req[r2].status = 400

\* The state of (P, V) as a reader can see it: read off the index content
\* stored while no write is under way.
VersionState(f, n, v) ==
    LET at == EntryIn(f, n, v)
    IN  IF at = {} THEN "Absent"
        ELSE IF \E i \in at : f[IndexKey(n)][i].entry.yanked THEN "Yanked"
        ELSE "Live"

\* In this step request r ends operation op on (n, v) with success.
Succeeds(r, op, n, v) ==
    /\ req[r].op = op /\ req[r].name = n /\ crate_version(req[r].vers) = v
    /\ req[r].pc # "done" /\ req'[r].pc = "done" /\ req'[r].status = 200

\* C10: each (P, V) follows Absent -> Live -> Yanked <-> Live: only a
\* successful publish takes it out of Absent, and into Live; only a
\* successful yank takes it from Live to Yanked; only a successful unyank
\* takes it back; nothing takes it back to Absent.
C10_StateMachine ==
    [][\A n \in Names, v \in Versions :
        LET a == VersionState(stable, n, v)
            b == VersionState(stable', n, v)
        IN  /\ (a = "Absent" /\ b # "Absent") =>
                b = "Live" /\ \E r \in Reqs : Succeeds(r, "publish", n, v)
            /\ (a = "Live" /\ b = "Yanked") =>
                \E r \in Reqs : Succeeds(r, "yank", n, v)
            /\ (a = "Yanked" /\ b = "Live") =>
                \E r \in Reqs : Succeeds(r, "unyank", n, v)
            /\ a # "Absent" => b # "Absent"
      ]_vars

\* The index of package n in f is the index in g with one entry added at
\* the end: the entry a publish of (n, v, bytes) builds.
Appended(f, g, n, v, bytes) ==
    LET old == StoredLines(g, IndexKey(n))
        new == StoredLines(f, IndexKey(n))
    IN  /\ Len(new) = Len(old) + 1
        /\ Front(new) = old
        /\ new[Len(new)] = JsonLine(IndexEntry(n, v, cksum(bytes), FALSE))

\* The index of package n in f is the index in g but for the yanked flag of
\* the one entry of version v, which is `flag`.
Flagged(f, g, n, v, flag) ==
    LET old == StoredLines(g, IndexKey(n))
        new == StoredLines(f, IndexKey(n))
    IN  /\ Len(new) = Len(old)
        /\ Cardinality(EntryIn(g, n, v)) = 1
        /\ \A i \in 1..Len(old) :
            IF i \in EntryIn(g, n, v)
            THEN new[i] = JsonLine([old[i].entry EXCEPT !.yanked = flag])
            ELSE new[i] = old[i]

\* C11: an index file only grows by appending.  Between two moments at
\* which no write is under way the index of a package is unchanged, or has
\* one entry of a publish added at its end, or differs in nothing but the
\* yanked flag of one entry; a successful publish adds exactly its entry
\* and a successful yank or unyank sets exactly the flag of the entry it
\* names; no entry is removed, reordered or otherwise changed.
C11_AppendOnly ==
    [][\A n \in Names :
        /\ \/ StoredLines(stable', IndexKey(n)) = StoredLines(stable, IndexKey(n))
           \/ \E v \in Versions, b \in Payloads : Appended(stable', stable, n, v, b)
           \/ \E v \in Versions, flag \in BOOLEAN :
                Flagged(stable', stable, n, v, flag)
        /\ \A r \in Reqs :
            (/\ Succeeds(r, "publish", n, crate_version(req[r].vers))
             /\ Quiet(lock', detached')) =>
                Appended(stable', stable, n, crate_version(req[r].vers),
                         req[r].bytes)
        /\ \A r \in Reqs :
            (/\ \/ Succeeds(r, "yank", n, req[r].vers)
                \/ Succeeds(r, "unyank", n, req[r].vers)
             /\ Quiet(lock', detached')) =>
                Flagged(stable', stable, n, req[r].vers, req[r].op = "yank")
      ]_vars

\* C12: yank and unyank are idempotent.  A yank (unyank) that finds the
\* entry of (P, V) prepares an index in which that entry is yanked (not
\* yanked), and the very index it read when the entry already was; when it
\* answers {ok: true} the index it prepared is what is stored.  So a second
\* yank after a first stores again what the first stored.
C12_Idempotent ==
    [][\A r \in Reqs :
        LET key == IndexKey(req[r].name)
            target == (req[r].op = "yank")
        IN  /\ (req[r].pc = "yk_read" /\ req'[r].pc = "yk_wr_index") =>
                LET old == from_bytes(files[key]).entries
                    new == req'[r].index_file
                IN  /\ Len(new) = Len(old)
                    /\ \A i \in 1..Len(old) :
                        old[i].vers = req[r].vers =>
                            /\ new[i].yanked = target
                            /\ old[i].yanked = target => new = old
            /\ (/\ req[r].pc \in {"yk_wr_index", "yk_wr_index_mid"}
                /\ req'[r].pc = "done" /\ req'[r].status = 200) =>
                /\ req'[r].body = OkBody
                /\ files'[key] = to_bytes(req[r].index_file)
      ]_vars

\* C12 witness: a published (P, V) was yanked twice, both yanks answered
\* {ok: true}, and the entry is stored yanked.
C12_Witness ==
    \E r1 \in Reqs, r2 \in Reqs :
        /\ r1 # r2
        /\ req[r1].op = "yank" /\ req[r1].pc = "done" /\ req[r1].status = 200
        /\ req[r2].op = "yank" /\ req[r2].pc = "done" /\ req[r2].status = 200
        /\ req[r1].name = req[r2].name /\ req[r1].vers = req[r2].vers
        /\ req[r1].body = OkBody /\ req[r2].body = OkBody
        /\ \E i \in EntryIn(files, req[r1].name, req[r1].vers) :
            files[IndexKey(req[r1].name)][i].entry.yanked

\* C13: a yank or unyank of a (P, V) that has no index entry is answered
\* 404 and writes nothing, whether the index file of P exists without V or
\* does not exist at all; in the latter case no index file is created.
C13_YankOfAbsent ==
    [][\A r \in Reqs :
        LET key == IndexKey(req[r].name)
            stored == from_bytes(StoredLines(files, key))
        IN  (/\ req[r].pc = "yk_read" /\ req'[r] # req[r]
             /\ faults' = faults /\ cancels' = cancels
             /\ stored.ok
             /\ ~HasVersion(stored.entries, req[r].vers)) =>
                /\ req'[r].pc = "done" /\ req'[r].status = 404
                /\ files' = files
                /\ lock'.writer = 0
      ]_vars

\* C13 witness: one yank or unyank was answered 404 "Crate not found" for
\* want of an index file, another 404 by an index file that holds another
\* version only.
C13_Witness ==
    \E r1 \in Reqs, r2 \in Reqs :
        /\ req[r1].op \in {"yank", "unyank"} /\ req[r1].pc = "done"
        /\ req[r1].status = 404 /\ req[r1].detail = StorageErrorDetail("NotFound")
        /\ req[r2].op \in {"yank", "unyank"} /\ req[r2].pc = "done"
        /\ req[r2].status = 404 /\ req[r2].detail = <<>>
        /\ EntryIn(files, req[r2].name, req[r2].vers) = {}
        /\ \E v \in Versions : EntryIn(files, req[r2].name, v) # {}

\* C14: yank and unyank never create, modify or remove an archive object,
\* and a fetch_archive of a (P, V) that is stored yanked answers 200 with
\* the bytes that were published (those the entry's cksum is the digest of).
C14_YankKeepsArchive ==
    [][\A r \in Reqs :
        /\ (req[r].op \in {"yank", "unyank"} /\ req'[r] # req[r]) =>
            /\ \A key \in DOMAIN files \cup DOMAIN files' :
                IsIndexKey(key) \/
                    /\ key \in DOMAIN files /\ key \in DOMAIN files'
                    /\ files'[key] = files[key]
        /\ (/\ req[r].op = "fetch_archive"
            /\ req[r].pc \in {"fa_read", "fa_stream"} /\ req'[r].pc = "done"
            /\ faults' = faults /\ cancels' = cancels) =>
                \A i \in EntryIn(files, req[r].name, req[r].vers) :
                    LET e == files[IndexKey(req[r].name)][i].entry
                    IN  e.yanked =>
                            /\ req'[r].status = 200
                            /\ cksum(req'[r].body) = e.cksum
      ]_vars

\* C15: on each storage variant the key a publish writes the archive of
\* (P, V) to is the key read_archive(P, V) reads: when a publish of
\* (P, V, bytes) succeeds, the object read_archive(P, V) reads is stored and
\* its digest is the cksum of the entry of (P, V).
C15_ReadKeyIsWriteKey ==
    [][\A r \in Reqs :
        LET name == req[r].name
            version == crate_version(req[r].vers)
        IN  Succeeds(r, "publish", name, version) =>
                /\ ReadCrateKey(name, version) = WriteCrateKey(name, version)
                /\ ReadCrateKey(name, version) \in DOMAIN files'
                /\ \A i \in EntryIn(files', name, version) :
                    files'[IndexKey(name)][i].entry.cksum
                        = cksum(files'[ReadCrateKey(name, version)])
      ]_vars

\* C16: a publish treats only NotFound from the index read as an empty
\* index.  If the read fails in any other way (I/O or transport error, or
\* a stored file that does not parse) the publish answers 500 at once,
\* having written neither archive nor index; if the index file is absent the
\* publish goes on with an index of its one entry.
C16_UnreadableIndexAborts ==
    [][\A r \in Reqs :
        LET name == req[r].name
            key == IndexKey(name)
        IN  (/\ req[r].op = "publish" /\ req[r].pc = "pub_read"
             /\ req'[r] # req[r] /\ cancels' = cancels) =>
                /\ (\/ faults' # faults
                    \/ /\ key \in DOMAIN files
                       /\ ~from_bytes(files[key]).ok) =>
                        /\ req'[r].pc = "done" /\ req'[r].status = 500
                        /\ files' = files
                        /\ lock'.writer = 0
                /\ (faults' = faults /\ key \notin DOMAIN files) =>
                        /\ req'[r].pc = "pub_wr_crate"
                        /\ req'[r].index_file =
                            <<IndexEntry(name, crate_version(req[r].vers),
                                         cksum(req[r].bytes), FALSE)>>
                        /\ files' = files
      ]_vars

\* C16 witness: an index file that does not parse is stored, and a publish
\* of a version was answered 500 without its archive having been written.
C16_Witness ==
    \E r \in Reqs :
        /\ req[r].op = "publish" /\ req[r].pc = "done" /\ req[r].status = 500
        /\ IndexKey(req[r].name) \in DOMAIN files
        /\ ~from_bytes(files[IndexKey(req[r].name)]).ok
        /\ ~Exists(WriteCrateKey(req[r].name, crate_version(req[r].vers)))

\* C17: on both storage variants a read of an index file or of an archive
\* that is not stored answers 404, and a read that fails in any other way
\* answers 500; so a fetch_archive of a (P, V) never published answers 404.
C17_AbsentIs404 ==
    [][\A r \in Reqs :
        /\ (/\ req[r].pc = "fi_read" /\ req'[r] # req[r] /\ cancels' = cancels) =>
            /\ faults' # faults => req'[r].status = 500
            /\ (faults' = faults /\ ~Exists(IndexKey(req[r].name))) =>
                    req'[r].status = 404
        /\ (/\ req[r].pc = "fa_read" /\ req'[r] # req[r] /\ cancels' = cancels) =>
            /\ faults' # faults => req'[r].status = 500
            /\ (faults' = faults
                    /\ ~Exists(ReadCrateKey(req[r].name, req[r].vers))) =>
                    req'[r].status = 404
      ]_vars

\* C18: if a storage write of a publish, yank or unyank fails (the write
\* itself, or creating the file), the request is answered 500 and the
\* exclusive lock is free again; if it is the archive write of a publish
\* that fails, the index file is left exactly as it was (an archive may
\* stay behind).
C18_WriteFailureIs500 ==
    [][\A r \in Reqs :
        LET index == IndexKey(req[r].name)
        IN  (/\ req[r].pc \in WritePoints
             /\ req'[r] # req[r] /\ cancels' = cancels
             /\ \/ faults' # faults
                \/ /\ variant = "local" /\ req[r].pc \notin MidPoints
                   /\ ~CanCreate(PendingWrite(r).key)) =>
                /\ req'[r].pc = "done" /\ req'[r].status = 500
                /\ lock.writer = r /\ lock'.writer = 0
                /\ req[r].pc \in {"pub_wr_crate", "pub_wr_crate_mid"} =>
                    /\ (index \in DOMAIN files') = (index \in DOMAIN files)
                    /\ StoredLines(files', index) = StoredLines(files, index)
      ]_vars

\* C18 witness: a publish was answered 500 after its archive write failed
\* part-way: the cut-off archive is stored, the index file holds the one
\* entry it held before, the lock is free.
C18_Witness ==
    \E r \in Reqs :
        LET archive == WriteCrateKey(req[r].name, crate_version(req[r].vers))
        IN  /\ req[r].op = "publish" /\ req[r].pc = "done" /\ req[r].status = 500
            /\ Exists(archive) /\ files[archive] # req[r].bytes
            /\ EntryIn(files, req[r].name, req[r].vers) = {}
            /\ Len(StoredLines(files, IndexKey(req[r].name))) = 1
            /\ from_bytes(StoredLines(files, IndexKey(req[r].name))).ok
            /\ lock = Unlocked
            /\ faults = 1 /\ cancels = 0

\* The object under key is in f what it is in g.
SameObject(f, g, key) ==
    /\ (key \in DOMAIN f) = (key \in DOMAIN g)
    /\ StoredLines(f, key) = StoredLines(g, key)

\* C19: a publish can be dropped at any suspension point, and its lock is
\* released.  Dropped after its archive write finished and before its index
\* write started, it leaves the archive stored whole and the index as it
\* was; dropped at an earlier point it has created or changed neither the
\* index nor an archive object; and no write of it happens after the drop.
C19_CancelledPublish ==
    [][\A r \in Reqs :
        LET archive == WriteCrateKey(req[r].name, crate_version(req[r].vers))
            index == IndexKey(req[r].name)
            Orphan == /\ archive \in DOMAIN files'
                      /\ files'[archive] = req[r].bytes
                      /\ SameObject(files', stable, index)
            Nothing == /\ SameObject(files', stable, index)
                       /\ SameObject(files', stable, archive)
        IN  (/\ req[r].op = "publish" /\ req[r].pc # "done"
             /\ req'[r].pc = "done" /\ cancels' # cancels) =>
                /\ lock'.writer # r /\ r \notin lock'.readers
                /\ req[r].pc = "pub_lock" => files' = files /\ detached' = detached
                /\ req[r].pc = "pub_read" => Nothing /\ detached' = detached
                /\ req[r].pc \in {"pub_wr_crate", "pub_wr_crate_mid"} =>
                    (Nothing \/ Orphan) /\ detached' = detached
                /\ (req[r].pc = "pub_wr_index"
                        /\ files' = files /\ detached' = detached) => Orphan
      ]_vars

\* C20: the size gate of a publish.  An upload whose length is not declared
\* is answered 411 and one whose declared length is above the configured
\* limit is answered 413, both at once and with the storage left as it was;
\* an upload whose declared length is exactly the limit goes on to the
\* lock, is never answered 411 or 413, and when it is answered 200 its entry
\* is in the stored index.
C20_SizeGate ==
    [][\A r \in Reqs :
         LET b == req'[r]
         IN  b.op = "publish" =>
               /\ b.body_size = NoSize => b.pc = "done" /\ b.status = 411
               /\ b.body_size # NoSize /\ b.body_size > max_publish_size
                     => b.pc = "done" /\ b.status = 413
               /\ b.status \in {411, 413}
                     => (b # req[r] => files' = files /\ dirs' = dirs)
               /\ b.body_size = max_publish_size
                     => /\ b.status \notin {411, 413}
                        /\ Free(r) /\ b # req[r] => b.pc = "pub_lock"
                        /\ b.status = 200 /\ req[r].status # 200
                              => EntryIn(files', b.name, b.vers) # {}]_vars

\* An upload of exactly the limit was published while one of a byte more
\* was turned away.
C20_Witness ==
    \E r, q \in Reqs :
        /\ req[r].op = "publish" /\ req[r].status = 200
        /\ req[r].body_size = max_publish_size
        /\ EntryIn(files, req[r].name, req[r].vers) # {}
        /\ req[q].op = "publish" /\ req[q].status = 413
        /\ req[q].body_size = max_publish_size + 1

\* The name validation as it is described: the raw input is non-empty, all
\* ASCII, at most 64 long, begins with a letter, goes on with letters,
\* digits, "_" or "-", and its lowercased form is not a forbidden name.
Accepted(raw) ==
    /\ raw # <<>>
    /\ \A i \in 1..Len(raw) : char_is_ascii(raw[i])
    /\ Len(raw) <= 64
    /\ raw[1] \in Range(LowerLetters) \cup Range(UpperLetters)
    /\ \A i \in 1..Len(raw) :
        is_ascii_alphanumeric(raw[i]) \/ raw[i] \in {"_", "-"}
    /\ to_lowercase(raw) \notin FORBIDDEN_CRATE_NAMES

\* C27: CrateName::new accepts a raw input exactly when it is non-empty, all
\* ASCII, at most 64 characters, starts with a letter, continues with
\* letters, digits, "_" or "-" and is not forbidden once lowercased; what it
\* returns is the lowercased input; a raw input with a character outside
\* ASCII is rejected even when that character lowercases into ASCII.
C27_Validation ==
    call.fn = "CrateName::new" =>
        /\ call.out.ok <=> Accepted(call.arg)
        /\ call.out.ok => call.out.name = to_lowercase(call.arg)

\* The sharding rule of the index, on path strings.
ShardRule(n) ==
    IF Len(n) = 1 THEN <<"1", "/">> \o n
    ELSE IF Len(n) = 2 THEN <<"2", "/">> \o n
    ELSE IF Len(n) = 3 THEN <<"3", "/", n[1], "/">> \o n
    ELSE <<n[1], n[2], "/", n[3], n[4], "/">> \o n

\* C24: for every valid name n of 1 to 64 characters index_path(n) follows
\* the sharding rule and from_index_path(index_path(n)) succeeds with n; a
\* name of 65 characters is rejected by the validation.
C24_NameRoundTrip ==
    /\ call.fn = "index_path" =>
        /\ Len(call.arg) \in 1..64
        /\ call.out.path = ShardRule(call.arg)
        /\ call.out.back.ok
        /\ call.out.back.name = call.arg
    /\ (call.fn = "CrateName::new" /\ Len(call.arg) >= 65) => ~call.out.ok

\* Names of 1, 2, 3, 4 and 64 characters, and one with "-" and "_", came
\* back whole.
C24_Witness ==
    /\ call.fn = "index_path"
    /\ call.out.back = NameOk(call.arg)
    /\ Len(call.arg) = 64
    /\ {1, 2, 3, 4, 5, 64} \subseteq {Len(n) : n \in ValidNames}

\* C25: whenever from_index_path(s) succeeds with n, index_path(n) is, as a
\* path, the lowercased s: rooted paths and paths with upper-case letters
\* included.
C25_PathOfAcceptedPath ==
    (call.fn = "get_index_file" /\ call.out.crate_name.ok) =>
        components(to_lowercase(call.arg))
            = PathComponents(index_path(call.out.crate_name.name))

\* A path that is not a consistent shard path.
NotShardPath(path) ==
    LET c == Looked(path)
        name == c[Len(c)].str
    IN  \/ Len(c) < 2 \/ Len(c) > 3
        \/ \E i \in 1..Len(c) : c[i].kind \in {"Prefix", "CurDir", "ParentDir"}
        \/ /\ Len(c) = 2
           /\ \/ c[1].str \notin {<<"1">>, <<"2">>}
              \/ <<NumToStr(Len(name))[1]>> # c[1].str
        \/ /\ Len(c) = 3 /\ c[1].str = <<"3">>
           /\ Len(name) # 3 \/ c[2].str # <<name[1]>>
        \/ /\ Len(c) = 3 /\ c[1].str # <<"3">>
           /\ \/ Len(name) < 4
              \/ c[1].str # SubSeq(name, 1, 2)
              \/ c[2].str # SubSeq(name, 3, 4)

\* C26: from_index_path rejects every path that is not a consistent shard
\* path, and get_index_file then answers without reading storage.
C26_RejectsInconsistentPaths ==
    call.fn = "get_index_file" =>
        /\ NotShardPath(call.arg) => ~call.out.crate_name.ok
        /\ ~call.out.crate_name.ok => call.out.status = 404 /\ ~call.out.reads

\* The inconsistent path ab/cd/abcxxx was turned away.
C26_Witness ==
    /\ call.fn = "get_index_file"
    /\ call.arg = PathString(<<SegAB, SegCD, NameABCXXX>>)
    /\ call.out.crate_name = NameErr("Inconsistent")
    /\ call.out.status = 404 /\ ~call.out.reads

\* The number of newline bytes of a text.
RECURSIVE Newlines(_)
Newlines(bytes) ==
    IF bytes = <<>> THEN 0
    ELSE (IF Head(bytes) = NL THEN 1 ELSE 0) + Newlines(Tail(bytes))

\* C29: for every sequence f of index entries, from_bytes(to_bytes(f)) is f,
\* entry by entry in the same order; to_bytes writes one JSON object per
\* entry with exactly one newline between two of them and none at the end;
\* the empty sequence gives zero bytes, which parse back to it.
C29_IndexRoundTrip ==
    call.fn = "IndexFile::to_bytes" =>
        LET f == call.arg
            bytes == call.out.bytes
        IN  /\ call.out.back.ok
            /\ call.out.back.entries = f
            /\ Len(bytes) = Len(f) + Newlines(bytes)
            /\ Newlines(bytes) = IF f = <<>> THEN 0 ELSE Len(f) - 1
            /\ \A i \in 1..Len(bytes) :
                  bytes[i] = NL <=> (i % 2 = 0)
            /\ f = <<>> => bytes = <<>>

\* Three entries, pre-release and build metadata among them, came back.
C29_Witness ==
    /\ call.fn = "IndexFile::to_bytes"
    /\ Len(call.arg) = 3
    /\ call.arg[2].vers = V100rcb
    /\ call.out.back.entries = call.arg
    /\ Newlines(call.out.bytes) = 2

\* The lines of a text that are not empty once trimmed, cut at "\n".
NonEmptyLines(bytes) ==
    LET cut == SplitOn(bytes, NL)
    IN  SelectSeq([i \in 1..Len(cut) |-> trim_end(cut[i])], LAMBDA l : l # <<>>)

\* C30: from_bytes skips blank lines: when every line that is not empty
\* after trimming is an entry, the file parses to just those entries, in
\* order, whatever empty lines it holds.
C30_BlankLinesSkipped ==
    call.fn = "IndexFile::from_bytes" =>
        LET kept == NonEmptyLines(call.arg)
        IN  (\A i \in 1..Len(kept) : from_str(kept[i]).ok) =>
                /\ call.out.ok
                /\ call.out.entries = [i \in 1..Len(kept) |-> from_str(kept[i]).entry]

\* C21: put_publish_crate answers 400, and does not reach the lock or the
\* storage, for every body shorter than 4 bytes, than 4 + L1, than 8 + L1 or
\* than 8 + L1 + L2, where L1 and L2 are the little-endian 32-bit lengths the
\* body carries; the metadata it parses is bytes [4, 4 + L1) and the archive
\* it goes on with is bytes [8 + L1, 8 + L1 + L2).
LengthAt(body, at) ==
    body[at + 1] + 256 * body[at + 2] + 65536 * body[at + 3]
        + 16777216 * body[at + 4]
TooShort(body) ==
    \/ Len(body) < 4
    \/ Len(body) < 4 + LengthAt(body, 0)
    \/ Len(body) < 8 + LengthAt(body, 0)
    \/ Len(body) < 8 + LengthAt(body, 0) + LengthAt(body, 4 + LengthAt(body, 0))
C21_Framing ==
    call.fn = "put_publish_crate" =>
        LET body == call.arg
            out == call.out
        IN  /\ TooShort(body) => out.status = 400 /\ ~out.locks
            /\ out.status = 400 => ~out.locks
            /\ (Len(body) >= 4 /\ Len(body) >= 4 + LengthAt(body, 0)) =>
                   out.json_bytes
                       = [i \in 1..LengthAt(body, 0) |-> body[4 + i]]
            /\ out.status = 0 =>
                   LET L1 == LengthAt(body, 0)
                       L2 == LengthAt(body, 4 + L1)
                   IN  /\ ~TooShort(body)
                       /\ out.crate_data = [i \in 1..L2 |-> body[8 + L1 + i]]

\* A body one byte short of its declared archive is refused.
C21_Witness ==
    /\ call.fn = "put_publish_crate"
    /\ Len(call.arg) >= 8 + MetadataLength
    /\ LengthAt(call.arg, 0) = MetadataLength
    /\ LengthAt(call.arg, 4 + MetadataLength) = 2
    /\ Len(call.arg) = 8 + MetadataLength + 1
    /\ call.out.status = 400

\* Helpers of the statements about names and versions as clients send them.
SentNames == {n.raw : n \in inputs.names}
JsonEntries(f, key) ==
    LET lines == StoredLines(f, key)
    IN  {lines[i].entry : i \in {j \in 1..Len(lines) : lines[j].kind = "json"}}
WithoutBuild(v) ==
    Version(v.major, v.minor, v.patch, v.pre, <<>>)
\* The handler of slot r answers in this step.
Answers(r, op) == req[r].op = op /\ req[r].pc # "done" /\ req'[r].pc = "done"

\* C22: a publish that succeeds has stored its entry with the version
\* without build metadata and its archive at the path of that version, and
\* nothing at the path of the version as uploaded; its response carries in
\* warnings.other the one warning "Build metadata in crate version was
\* ignored: <build>" when the uploaded version had build metadata, and no
\* warning when it had none.
C22_BuildMetadataStripped ==
    [][\A r \in Reqs :
        (Answers(r, "publish") /\ req'[r].status = 200) =>
            LET name == req[r].name
                sent == req[r].vers
                stored == WithoutBuild(sent)
                entries == JsonEntries(files', IndexKey(name))
            IN  /\ \E e \in entries :
                    e.vers = stored /\ e.cksum = cksum(req[r].bytes)
                /\ \A e \in entries : e.vers.build = <<>>
                /\ WriteCrateKey(name, stored) \in DOMAIN files'
                /\ files'[WriteCrateKey(name, stored)] = req[r].bytes
                /\ sent.build # <<>> =>
                       WriteCrateKey(name, sent) \notin DOMAIN files'
                /\ req'[r].body[1] = <<>> /\ req'[r].body[2] = <<>>
                /\ req'[r].body[3] =
                       IF sent.build = <<>> THEN <<>>
                       ELSE <<StrBuildIgnored \o sent.build>>
      ]_vars

\* C22 witness: a publish of 1.0.0+a was answered 200 with one warning, and
\* the entry 1.0.0 is stored.
C22_Witness ==
    \E r \in Reqs :
        /\ req[r].op = "publish" /\ req[r].pc = "done" /\ req[r].status = 200
        /\ req[r].vers = V100a
        /\ Len(req[r].body[3]) = 1
        /\ V100 \in {e.vers : e \in JsonEntries(files, IndexKey(req[r].name))}
        /\ files[WriteCrateKey(req[r].name, V100)] = req[r].bytes

\* C23: build metadata takes no part in version equality or path mapping.
\* A publish of a version whose major, minor, patch and pre-release are those
\* of a stored entry is answered 400 as a duplicate; a yank or unyank of such
\* a version is not answered 404 but goes on to write the index; a
\* fetch_archive of such a version whose archive is stored is answered with
\* the archive.
C23_BuildMetadataIgnored ==
    [][\A r \in Reqs :
        LET name == req[r].name
            version == req[r].vers
            published ==
                WithoutBuild(version)
                    \in {e.vers : e \in JsonEntries(files, IndexKey(name))}
            stepped == req'[r] # req[r]
        IN  /\ (req[r].op = "publish" /\ req[r].pc = "pub_read" /\ stepped
                /\ published) =>
                   req'[r].pc = "done" /\ req'[r].status = 400
            /\ (req[r].op \in {"yank", "unyank"} /\ req[r].pc = "yk_read"
                /\ stepped /\ published) =>
                   req'[r].pc = "yk_wr_index"
            /\ (req[r].op = "fetch_archive" /\ req[r].pc = "fa_read" /\ stepped
                /\ published
                /\ ReadCrateKey(name, WithoutBuild(version)) \in DOMAIN files) =>
                   /\ req'[r].status \in {0, 200}
                   /\ req'[r].pc = "done" =>
                          req'[r].body
                              = files[ReadCrateKey(name, WithoutBuild(version))]
      ]_vars

\* C28: every entry of the index file of a package P carries the name P,
\* which is its own lowercase, entries named P are in no other stored file,
\* and nothing is stored at the index path of a name as a client spelled it
\* in mixed case; a publish whose name differs from P in letter case only
\* stores its entry in P's index file, and is answered 400 as a duplicate
\* when P's index file has the version.
C28_OneIndexPerPackage ==
    /\ [](\A raw \in SentNames :
            LET P == to_lowercase(raw)
            IN  /\ \A e \in JsonEntries(files, IndexKey(P)) : e.name = P
                /\ \A other \in SentNames :
                       IndexKey(to_lowercase(other)) # IndexKey(P) =>
                           \A e \in JsonEntries(files,
                                                IndexKey(to_lowercase(other))) :
                               e.name # P
                /\ raw # P => IndexKey(raw) \notin DOMAIN files)
    /\ [][\A r \in Reqs :
            LET P == to_lowercase(req[r].raw)
                stored == WithoutBuild(req[r].vers)
                Has(f) == \E e \in JsonEntries(f, IndexKey(P)) :
                              e.name = P /\ e.vers = stored
            IN  /\ (Answers(r, "publish") /\ req'[r].status = 200) => Has(files')
                /\ (req[r].op = "publish" /\ req[r].pc = "pub_read"
                    /\ req'[r] # req[r] /\ Has(files)) =>
                       /\ req'[r].pc = "done" /\ req'[r].status = 400
                       /\ files' = files
         ]_vars

\* C28 witness: "FoO" 1.0.0 was published after "foo" 1.0.0 was, and was
\* answered 400; the entry is in the index file of "foo".
C28_Witness ==
    \E r \in Reqs :
        /\ req[r].op = "publish" /\ req[r].pc = "done" /\ req[r].status = 400
        /\ req[r].raw = NameFooMixed
        /\ req[r].detail = DuplicateDetail(NameFoo, WithoutBuild(req[r].vers))
        /\ \E e \in JsonEntries(files, IndexKey(NameFoo)) :
               e.name = NameFoo /\ e.vers = WithoutBuild(req[r].vers)

\* C33: each uploaded dependency with explicit_name_in_toml is stored with
\* that as its name and the uploaded name as its package; each one without is
\* stored with the uploaded name and no package; the stored dependencies
\* stand in upload order and carry the uploaded requirement, features,
\* optional, default_features, target, kind and registry.
C33_DependencyRename ==
    call.fn = "IndexEntry::deps" =>
        LET deps == call.arg
            stored == call.out
        IN  /\ Len(stored) = Len(deps)
            /\ \A i \in 1..Len(deps) :
                /\ deps[i].explicit_name_in_toml.some =>
                       /\ stored[i].name = deps[i].explicit_name_in_toml.val
                       /\ stored[i].package = [some |-> TRUE, val |-> deps[i].name]
                /\ ~deps[i].explicit_name_in_toml.some =>
                       /\ stored[i].name = deps[i].name
                       /\ ~stored[i].package.some
                /\ stored[i].req = deps[i].version_req
                /\ stored[i].features = deps[i].features
                /\ stored[i].optional = deps[i].optional
                /\ stored[i].default_features = deps[i].default_features
                /\ stored[i].target = deps[i].target
                /\ stored[i].kind = deps[i].kind
                /\ stored[i].registry = deps[i].registry

\* C33 witness: a renamed dependency stored between two others.
C33_Witness ==
    /\ call.fn = "IndexEntry::deps"
    /\ call.arg = <<DepSerde, DepRenamed, DepRenamedEmpty>>
    /\ call.out[2].name = "rng"
    /\ call.out[2].package = [some |-> TRUE, val |-> "rand"]
    /\ ~call.out[1].package.some

\* C34: the rust_version field accepts exactly the bare versions M, M.m,
\* M.m.p and M.m.p-pre (numbers without leading zeros, a pre-release of
\* non-empty dot-separated identifiers), rejects every text with "^", another
\* operator or a wildcard, and an accepted text is printed back as it was
\* and the printed text parses to the same value.
IsIdentifier(seg) ==
    /\ seg # <<>>
    /\ \A i \in 1..Len(seg) : seg[i] \in Alphanumerics \cup {"-"}
    /\ (\A i \in 1..Len(seg) : seg[i] \in Range(Digits)) => IsNumber(seg)
IsBareVersion(text) ==
    LET dash == FirstIndex(text, "-")
        core == IF dash = 0 THEN text ELSE SubSeq(text, 1, dash - 1)
        pre == IF dash = 0 THEN <<>> ELSE SubSeq(text, dash + 1, Len(text))
        nums == SplitOn(core, ".")
        ids == SplitOn(pre, ".")
    IN  /\ Len(nums) \in 1..3
        /\ \A i \in 1..Len(nums) : IsNumber(nums[i])
        /\ dash # 0 =>
               /\ Len(nums) = 3
               /\ \A i \in 1..Len(ids) : IsIdentifier(ids[i])
HasOperatorOrWildcard(text) ==
    \/ \E i \in 1..Len(text) : text[i] \in {"^", "=", ">", "<", "~", "*"}
    \/ \E i \in 1..Len(SplitOn(text, ".")) :
           SplitOn(text, ".")[i] \in {<<"x">>, <<"X">>}
C34_MinRustVersion ==
    call.fn = "MinRustVersion::from_str" =>
        /\ call.out.parsed.ok <=> IsBareVersion(call.arg)
        /\ HasOperatorOrWildcard(call.arg) => ~call.out.parsed.ok
        /\ call.out.parsed.ok =>
               /\ call.out.rendered = call.arg
               /\ call.out.back = call.out.parsed

\* C38: storage keys do not collide.  Two different valid names have
\* different index keys, two different (name, version) pairs have different
\* archive keys, and no index key is an archive key, in the local variant
\* and in the object store (for the key archives are written at and for the
\* key they are read from).
C38_KeysDistinct ==
    call.fn = "Storage::keys" =>
        LET a == call.arg[1]
            b == call.arg[2]
            ka == call.out[1]
            kb == call.out[2]
        IN  /\ a.name # b.name =>
                /\ ka.local_index # kb.local_index
                /\ ka.s3_index # kb.s3_index
            /\ a # b =>
                /\ ka.local_crate # kb.local_crate
                /\ ka.s3_write_crate # kb.s3_write_crate
                /\ ka.s3_read_crate # kb.s3_read_crate
            /\ ka.local_index # kb.local_crate
            /\ ka.s3_index # kb.s3_write_crate
            /\ ka.s3_index # kb.s3_read_crate

\* C38 witness: the archive of "ab" 1.0.0 and the index file of "abcd" lie
\* under the same first directory of the bucket and are different objects.
C38_Witness ==
    /\ call.fn = "Storage::keys"
    /\ call.arg[1].name = <<"a", "b", "c", "d">>
    /\ call.arg[2] = [name |-> <<"a", "b">>, version |-> V100]
    /\ SubSeq(call.out[1].s3_index, 1, 3) = SubSeq(call.out[2].s3_write_crate, 1, 3)
    /\ call.out[1].s3_index # call.out[2].s3_write_crate

\* ---------------------------------------------------------------------- C31
StorageOps == {"fetch_index", "fetch_archive", "publish", "yank", "unyank"}
Unauthenticated == {401, 403}
HoldsLock(r) == lock.writer = r \/ r \in lock.readers
Mismatched(h) == h.present /\ Sha512(h.value) # token_hash

\* A step that ends with request r refused by the authorization is the
\* first step of r, takes no lock and leaves storage as it was.
RefusedUntouched ==
    \A r \in Reqs :
        (req'[r].status \in Unauthenticated /\ req'[r] # req[r])
            => /\ Free(r) /\ req'[r].pc = "done"
               /\ ~HoldsLock(r) /\ ~HoldsLock(r)'
               /\ UNCHANGED <<files, dirs, lock>>

\* C31: in token mode each of fetch_index, fetch_archive, publish, yank and
\* unyank answers 401 to a request that presents no token and 403 to one
\* whose presented token does not hash to the configured hash; such a
\* request takes no lock and does not touch storage; with authorization
\* disabled no request is answered 401 or 403.
C31_AuthorizationGates ==
    /\ [](\A r \in Reqs :
            req[r].op \in StorageOps =>
                /\ inputs.auth = "Token" =>
                     /\ ~req[r].header.present => req[r].status = 401
                     /\ Mismatched(req[r].header) => req[r].status = 403
                /\ inputs.auth = "None" => req[r].status \notin Unauthenticated
                /\ req[r].status \in Unauthenticated => ~HoldsLock(r))
    /\ [][RefusedUntouched]_vars

\* The part of C31 that holds: the statuses of the requests whose header is
\* absent or is text, and the refusals before any lock or storage access.
C31_TextHeaders ==
    /\ [](\A r \in Reqs :
            (req[r].op \in StorageOps /\ inputs.auth = "Token") =>
                /\ ~req[r].header.present => req[r].status = 401
                /\ (Mismatched(req[r].header) /\ req[r].header.visible)
                      => req[r].status = 403
                /\ (req[r].header = Header(StrSecret))
                      => req[r].status \notin Unauthenticated)
    /\ [][RefusedUntouched]_vars

\* ---------------------------------------------------------------------- C35
\* The first check of a publish that fails for what the client sent, read
\* off the request alone; "none" when all pass.
Authorized(h) == inputs.auth = "None" \/ h.header = Header(StrSecret)
FirstFailing(h, n, u, exact) ==
    IF ~Authorized(h) THEN "authorization"
    ELSE IF ~exact THEN "length"
    ELSE IF Len(u.body_data) > max_publish_size THEN "size"
    ELSE IF TooShort(u.body_data) THEN "framing"
    ELSE IF ~n.crate_name.ok THEN "metadata"
    ELSE "none"
Answer(q, check) ==
    CASE check = "authorization" -> q.status \in Unauthenticated
      [] check = "length" -> q.status = 411
      [] check = "size" -> q.status = 413
      [] check = "framing" -> q.status = 400 /\ q.detail = <<>>
      [] check = "metadata" ->
            q.status = 400 /\ q.detail # <<>> /\ q.detail[1] = "name"
      [] check = "none" -> q.status = 0 /\ q.pc = "pub_lock"
IsStartPublish(r, h, n, v, u, exact) ==
    /\ NextSlot(r)
    /\ started < inputs.starts
    /\ started' = started + 1
    /\ req' = [req EXCEPT ![r] = PublishChecked(h, n, v, u, exact)]

\* C35: a publish is answered by the first check it fails, in the order
\* authorization (401 or 403), unknown length (411), oversize (413),
\* framing (400), metadata (400 naming the field); a request refused by one
\* of them has taken no lock and left storage as it was; the duplicate
\* check (400) is made by a request that holds the lock exclusively.
C35_PublishCheckOrder ==
    [][\A r \in Reqs :
         /\ \A h \in inputs.headers, n \in inputs.names, v \in inputs.versions,
               u \in inputs.uploads, exact \in inputs.exact :
              IsStartPublish(r, h, n, v, u, exact) =>
                  /\ Answer(req'[r], FirstFailing(h, n, u, exact))
                  /\ req'[r].pc = "done" =>
                        (~HoldsLock(r)' /\ UNCHANGED <<files, dirs, lock>>)
         /\ (req'[r].op = "publish" /\ req'[r] # req[r] /\ req'[r].detail # <<>>
               /\ req'[r].detail = DuplicateDetail(req'[r].name, req'[r].vers))
              => (req[r].pc = "pub_read" /\ lock.writer = r)
    ]_vars

\* A publish that presents the token, declares a length within the limit
\* and is well framed has been refused for its metadata.
C35_Witness ==
    /\ inputs.auth = "Token"
    /\ \E r \in Reqs :
        /\ req[r].op = "publish" /\ req[r].pc = "done"
        /\ req[r].header = Header(StrSecret)
        /\ req[r].body_size = Len(req[r].body_data)
        /\ req[r].body_size <= max_publish_size
        /\ ~TooShort(req[r].body_data)
        /\ req[r].raw = NameBad
        /\ req[r].status = 400
        /\ req[r].detail = DeserializeDetail("NotAlphabeticFirstChar")

\* ---------------------------------------------------------------------- C32
IndexWritePoints ==
    {"pub_wr_index", "pub_wr_index_mid", "yk_wr_index", "yk_wr_index_mid"}

\* C32: every index write a publish, yank or unyank issues carries at least
\* one entry, whether the handler awaits it or has been dropped while it
\* was pending, and an index write that completes stores a file of at
\* least one entry.
C32_NoEmptyIndexWrite ==
    /\ [](\A r \in Reqs :
            req[r].pc \in IndexWritePoints =>
                /\ Len(req[r].index_file) >= 1
                /\ Len(PendingWrite(r).lines) >= 1)
    /\ [](\A w \in detached : w.bytes = <<>> => Len(w.lines) >= 1)
    /\ [][\A r \in Reqs :
            (req[r].pc \in IndexWritePoints /\ req'[r].pc = "done"
                /\ req'[r].status = 200)
              => LET key == IndexKey(req[r].name)
                 IN  /\ key \in DOMAIN files'
                     /\ files'[key] = to_bytes(req[r].index_file)
                     /\ from_bytes(files'[key]).ok
                     /\ Len(from_bytes(files'[key]).entries) >= 1]_vars

\* A first publish and a yank have each completed their index write.
C32_Witness ==
    \E r, q \in Reqs :
        /\ req[r].op = "publish" /\ req[r].pc = "done" /\ req[r].status = 200
        /\ req[q].op = "yank" /\ req[q].pc = "done" /\ req[q].status = 200
        /\ req[q].name = req[r].name
        /\ IndexKey(req[r].name) \in DOMAIN files
        /\ Len(files[IndexKey(req[r].name)]) = 1

\* ---------------------------------------------------------------------- C37
\* The archive of (name, version) is stored and the index has no entry of it.
Orphan(name, version) ==
    /\ Exists(WriteCrateKey(name, version))
    /\ EntryIn(files, name, version) = {}

\* What a step of a publish of (P, V) over an orphan archive must do.
OrphanOverwritten ==
    \A r \in Reqs :
         LET name == req[r].name
             version == crate_version(req[r].vers)
         IN  /\ (req[r].pc = "pub_read" /\ Orphan(name, version)
                   /\ req'[r].pc = "done") => req'[r].status # 400
             /\ (req[r].pc \in {"pub_wr_index", "pub_wr_index_mid"}
                   /\ req'[r].pc = "done" /\ req'[r].status = 200)
                  => /\ Exists(WriteCrateKey(name, version))'
                     /\ files'[WriteCrateKey(name, version)] = req[r].bytes
                     /\ \A i \in EntryIn(files', name, version) :
                          files'[IndexKey(name)][i].entry.cksum = cksum(req[r].bytes)
                     /\ Exists(ReadCrateKey(name, version))'
                     /\ files'[ReadCrateKey(name, version)] = req[r].bytes

\* C37: a publish of (P, V) that finds an orphan archive is not rejected as
\* a duplicate, and when it succeeds the archive stored for (P, V) is the
\* uploaded one, the entry's cksum is its digest, and the uploaded bytes are
\* what fetch_archive(P, V) reads.
C37_OrphanOverwritten == [][OrphanOverwritten]_vars

\* The same on the local variant alone.
C37_Local == [][variant = "local" => OrphanOverwritten]_vars

\* ---------------------------------------------------------------------- C39
Unchanged(key) ==
    /\ (key \in DOMAIN files') = (key \in DOMAIN files)
    /\ key \in DOMAIN files => files'[key] = files[key]
ArchiveUnchanged(name, version) ==
    /\ Unchanged(WriteCrateKey(name, version))
    /\ Unchanged(ReadCrateKey(name, version))
PackageNames == {n.crate_name.name : n \in {m \in inputs.names : m.crate_name.ok}}
PackageVersions == {crate_version(v) : v \in inputs.versions}
\* The keys a write for package `name` may go to.
KeysOfPackage(name) ==
    {IndexKey(name)} \cup {WriteCrateKey(name, v) : v \in PackageVersions}

\* C39: a step of a publish, yank or unyank of P, its being dropped
\* included, changes neither the index file nor any archive of a package
\* other than P and leaves no write pending for one, and a write left
\* pending changes only the file it was issued for; a step of a publish of
\* (P, V) changes no archive of another version of P, and a yank or unyank
\* changes no archive at all.
C39_OtherPackagesUntouched ==
    [][/\ req' = req =>
            \A key \in DOMAIN files \cup DOMAIN files' :
                Unchanged(key) \/ \E w \in detached : w.key = key
       /\ \A r \in Reqs :
         (req'[r] # req[r] /\ req[r].op \in {"publish", "yank", "unyank"}
             /\ ~Free(r))
           => /\ \A q \in PackageNames \ {req[r].name} :
                   /\ Unchanged(IndexKey(q))
                   /\ \A v \in PackageVersions : ArchiveUnchanged(q, v)
                   /\ \A w \in detached' \ detached : w.key \notin KeysOfPackage(q)
              /\ \A v \in PackageVersions \ {crate_version(req[r].vers)} :
                   ArchiveUnchanged(req[r].name, v)
              /\ req[r].op \in {"yank", "unyank"} =>
                   \A v \in PackageVersions : ArchiveUnchanged(req[r].name, v)
    ]_vars

\* A yank of one package has rewritten its index while another package has
\* its index and an archive stored.
C39_Witness ==
    \E r \in Reqs : \E q \in PackageNames \ {req[r].name} :
        /\ req[r].op = "yank" /\ req[r].pc = "done" /\ req[r].status = 200
        /\ Exists(IndexKey(q))
        /\ \E v \in PackageVersions : Exists(WriteCrateKey(q, v))

\* ---------------------------------------------------------------------- C36
LockPoints == {"pub_lock", "yk_lock", "fi_lock", "fa_lock"}
Waiting(r) == req[r].pc \in LockPoints
\* Every hold of the lock is that of a handler between its lock step and
\* its end.
HeldByRunning ==
    \A r \in Reqs :
        HoldsLock(r) => (~Free(r) /\ ~Waiting(r))
\* While a handler is running, some handler can take a step.
NoDeadlock ==
    (\E r \in Reqs : ~Free(r)) =>
        \E r \in Reqs : ENABLED (LockStep(r) \/ StorageStep(r))

\* C36: a request that has ended, by a response of any status or by being
\* dropped, holds the lock no longer; some running handler can always take
\* a step; and a request waiting for the lock comes to hold it, unless it
\* is dropped while it waits.
C36_LockReleased ==
    /\ [](\A r \in Reqs : Free(r) => ~HoldsLock(r))
    /\ []HeldByRunning
    /\ []NoDeadlock
    /\ \A r \in Reqs : Waiting(r) ~> ~Waiting(r)

\* A handler waits for the lock while another holds it exclusively, after a
\* request was dropped.
C36_Witness ==
    /\ cancels = 1
    /\ \E r, q \in Reqs : Waiting(r) /\ lock.writer = q

====
